---------------------------- MODULE Spec2Model ----------------------------
(***************************************************************************)
(* A model of pyPPC (src/lib/ppc): the lexer, the parser, the evaluator,   *)
(* the type system, the secret providers, the Config tree and dumps.       *)
(*                                                                         *)
(* Text is a sequence of one-character strings.  A Python value is a       *)
(* record of one shape (fields t, s, i, b, e, l, m) so that any two values *)
(* can be compared.  A Python dict is a sequence of <<key, value>> pairs   *)
(* in insertion order.  An optional value (None or x) is a sequence of     *)
(* length 0 or 1.                                                          *)
(*                                                                         *)
(* The module holds several specifications over one set of variables:      *)
(*   SpecMerge  Config.merge on a heap of dict objects                     *)
(* Each specification keeps the variables of the others at their idle      *)
(* values.                                                                 *)
(***************************************************************************)
EXTENDS Integers, Sequences, FiniteSets, TLC

VARIABLES
    heap,       \* SpecMerge: address -> dict object (sequence of <<key, cell>>)
    configs,    \* SpecMerge: Config object name -> address of its _data
    lastMerge,  \* SpecMerge: the last Config.merge call and the heap before it
    mergeOps,   \* SpecMerge: number of merge calls made
    environ,    \* os.environ: variable name -> text
    call,       \* SpecValue: the load or loads call made, and its outcome
    fs,         \* SpecEval: canonical path -> AST of the file there
    stack,      \* SpecEval: the nested Evaluator.evaluate calls, root first
    included,   \* SpecEval: the _included_files set the evaluators share
    outcome,    \* SpecEval: how the top-level load ended
    lexer,      \* SpecLex: the Lexer object whose tokenize() is running
    iters,      \* SpecLex: the loop iterations tokenize() has started
    trip,       \* SpecRT: the dumps call made and what loads made of its text
    app,        \* the function applied to a drawn input, and what it returned
    past,       \* SpecReuse: the outcomes of the evaluate calls that have ended
    chain       \* SpecChain: the secret provider objects, and the last get

mergeVars == <<heap, configs, lastMerge, mergeOps>>
valueVars == <<environ, call>>
evalVars == <<fs, stack, included, outcome>>
lexVars == <<lexer, iters>>
vars == <<heap, configs, lastMerge, mergeOps, environ, call, fs, stack, included,
          outcome, lexer, iters, trip, app, past, chain>>
restVars == <<app, past, chain>>
\* the variables a specification leaves alone
mergeOthers == <<valueVars, evalVars, lexVars, trip, restVars>>
valueOthers == <<mergeVars, evalVars, lexVars, trip, restVars>>
evalOthers == <<mergeVars, call, lexVars, trip, restVars>>
lexOthers == <<mergeVars, valueVars, evalVars, trip, restVars>>
tripOthers == <<mergeVars, valueVars, evalVars, lexVars, restVars>>
appOthers == <<mergeVars, call, evalVars, lexVars, trip, past, chain>>
chainOthers == <<mergeVars, call, evalVars, lexVars, trip, app, past>>

---------------------------------------------------------------------------
(* Characters and text                                                     *)

LowerSeq == <<"a","b","c","d","e","f","g","h","i","j","k","l","m",
              "n","o","p","q","r","s","t","u","v","w","x","y","z">>
UpperSeq == <<"A","B","C","D","E","F","G","H","I","J","K","L","M",
              "N","O","P","Q","R","S","T","U","V","W","X","Y","Z">>
DigitSeq == <<"0","1","2","3","4","5","6","7","8","9">>

Range(f) == {f[x] : x \in DOMAIN f}
Lowers == Range(LowerSeq)
Uppers == Range(UpperSeq)
Digits == Range(DigitSeq)

\* str.isalnum() on one ASCII character
IsAlnum(c) == c \in Lowers \cup Uppers \cup Digits
\* the regular expression class \w on one ASCII character
IsWord(c) == IsAlnum(c) \/ c = "_"

\* str.lower() on one character
LowerChar(c) ==
    IF c \in Uppers THEN LowerSeq[CHOOSE n \in DOMAIN UpperSeq : UpperSeq[n] = c]
    ELSE c
\* str.lower()
Lower(s) == [n \in DOMAIN s |-> LowerChar(s[n])]

DigitVal(c) == (CHOOSE n \in DOMAIN DigitSeq : DigitSeq[n] = c) - 1

\* s[from..] (1-based), the empty text when from is past the end
Drop(s, from) == IF from > Len(s) THEN <<>> ELSE SubSeq(s, from, Len(s))
\* s[a..b], clipped to s
Slice(s, a, b) == IF a > b \/ a > Len(s) THEN <<>>
                  ELSE SubSeq(s, a, IF b > Len(s) THEN Len(s) ELSE b)
\* text[pos:pos+len(p)] == p, pos 1-based
StartsWithAt(s, pos, p) == Slice(s, pos, pos + Len(p) - 1) = p

\* an optional value
None == <<>>
Some(x) == <<x>>

---------------------------------------------------------------------------
(* Python values                                                           *)

Blank == [t |-> "null", s |-> <<>>, i |-> 0, b |-> FALSE, e |-> 0,
          l |-> <<>>, m |-> <<>>]
VNull == Blank
VStr(s) == [Blank EXCEPT !.t = "str", !.s = s]
VInt(i) == [Blank EXCEPT !.t = "int", !.i = i]
VBool(b) == [Blank EXCEPT !.t = "bool", !.b = b]
\* a float mant / 10^exp
VFloat(mant, exp) == [Blank EXCEPT !.t = "float", !.i = mant, !.e = exp]
VList(l) == [Blank EXCEPT !.t = "list", !.l = l]
\* a dict held by value: a sequence of <<key, value>>
VMap(m) == [Blank EXCEPT !.t = "map", !.m = m]
\* a reference to the dict object at an address of the heap
VRef(a) == [Blank EXCEPT !.t = "ref", !.i = a]

\* isinstance(v, dict)
IsDict(v) == v.t \in {"map", "ref"}

\* dict operations on a sequence of <<key, value>>
DictKeys(d) == {d[n][1] : n \in DOMAIN d}
DictHas(d, k) == \E n \in DOMAIN d : d[n][1] = k
DictIndex(d, k) == CHOOSE n \in DOMAIN d : d[n][1] = k
DictGet(d, k) == d[DictIndex(d, k)][2]
\* d[k] = v: an existing key keeps its place, a new key goes last
DictSet(d, k, v) ==
    IF DictHas(d, k) THEN [d EXCEPT ![DictIndex(d, k)] = <<k, v>>]
    ELSE Append(d, <<k, v>>)

\* == on two trees held by value: dicts compare without regard to order
RECURSIVE TreeEq(_, _)
TreeEq(x, y) ==
    IF x.t = "map" /\ y.t = "map"
    THEN /\ DictKeys(x.m) = DictKeys(y.m)
         /\ \A k \in DictKeys(x.m) : TreeEq(DictGet(x.m, k), DictGet(y.m, k))
    ELSE x = y

---------------------------------------------------------------------------
(* Python conversions: int(), float(), str(), repr(), str.strip()          *)
(* Numerals are short: no float rounding, overflow or exponent notation in *)
(* the output of str().                                                    *)

\* the characters str.strip() removes
IsSpace(c) == c \in {" ", "\t", "\n", "\r", "\f"}

RECURSIVE LStrip(_)
LStrip(s) == IF s # <<>> /\ IsSpace(s[1]) THEN LStrip(Tail(s)) ELSE s
RECURSIVE RStrip(_)
RStrip(s) == IF s # <<>> /\ IsSpace(s[Len(s)])
             THEN RStrip(SubSeq(s, 1, Len(s) - 1)) ELSE s
\* str.strip()
Strip(s) == RStrip(LStrip(s))

RECURSIVE Pow10(_)
Pow10(n) == IF n <= 0 THEN 1 ELSE 10 * Pow10(n - 1)

\* a digit group D(_?D)* of a numeric literal starting at pos: the number of
\* characters it takes (0 when there is no digit at pos), its value and its
\* number of digits
RECURSIVE ScanDigitsFrom(_, _, _, _, _)
ScanDigitsFrom(s, pos, n, val, nd) ==
    IF pos <= Len(s) /\ s[pos] \in Digits
    THEN ScanDigitsFrom(s, pos + 1, n + 1, 10 * val + DigitVal(s[pos]), nd + 1)
    ELSE IF /\ nd > 0 /\ pos + 1 <= Len(s)
            /\ s[pos] = "_" /\ s[pos + 1] \in Digits
    THEN ScanDigitsFrom(s, pos + 1, n + 1, val, nd)
    ELSE [n |-> n, val |-> val, nd |-> nd]
ScanDigits(s, pos) == ScanDigitsFrom(s, pos, 0, 0, 0)

\* an optional sign at pos: characters taken and the factor
ScanSign(s, pos) ==
    IF pos <= Len(s) /\ s[pos] = "-" THEN [n |-> 1, f |-> -1]
    ELSE IF pos <= Len(s) /\ s[pos] = "+" THEN [n |-> 1, f |-> 1]
    ELSE [n |-> 0, f |-> 1]

\* int(s) for a text s, base 10: [ok, v]
PyIntOfStr(s) ==
    LET t == Strip(s)
        sg == ScanSign(t, 1)
        d == ScanDigits(t, 1 + sg.n)
    IN  IF d.nd > 0 /\ sg.n + d.n = Len(t)
        THEN [ok |-> TRUE, v |-> sg.f * d.val]
        ELSE [ok |-> FALSE, v |-> 0]

\* the float mant / 10^exp with trailing zeros of the fraction dropped
RECURSIVE NormFloat(_, _)
NormFloat(mant, exp) ==
    IF exp > 0 /\ mant % 10 = 0 THEN NormFloat(mant \div 10, exp - 1)
    ELSE IF exp < 0 THEN NormFloat(mant * 10, exp + 1)
    ELSE VFloat(mant, exp)

\* float("inf"), float("nan"): held by name
VFloatNamed(name) == [Blank EXCEPT !.t = "float", !.s = name]

\* float(s) for a text s: [ok, v]
\* the fraction .D* and the exponent [eE][+-]?D+ of a float literal at pos,
\* when there: characters taken, value, digits
ScanFraction(t, pos) ==
    LET Taken(fp) == [n |-> 1 + fp.n, val |-> fp.val, nd |-> fp.nd]
    IN  IF pos <= Len(t) /\ t[pos] = "." THEN Taken(ScanDigits(t, pos + 1))
        ELSE [n |-> 0, val |-> 0, nd |-> 0]
ScanExponent(t, pos) ==
    LET Taken(es, ed) == [n |-> 1 + es.n + ed.n, val |-> es.f * ed.val, nd |-> ed.nd]
        Signed(es) == Taken(es, ScanDigits(t, pos + 1 + es.n))
    IN  IF pos <= Len(t) /\ t[pos] \in {"e", "E"} THEN Signed(ScanSign(t, pos + 1))
        ELSE [n |-> 0, val |-> 0, nd |-> 1]

PyFloatOfStr(s) ==
    LET Number(t, sg, ip, fp, ex) ==
            IF Lower(Drop(t, 1 + sg.n))
                   \in {<<"i","n","f">>, <<"i","n","f","i","n","i","t","y">>}
            THEN [ok |-> TRUE, v |-> VFloatNamed(IF sg.f < 0 THEN <<"-","i","n","f">>
                                                            ELSE <<"i","n","f">>)]
            ELSE IF Lower(Drop(t, 1 + sg.n)) = <<"n","a","n">>
            THEN [ok |-> TRUE, v |-> VFloatNamed(<<"n","a","n">>)]
            ELSE IF /\ ip.nd + fp.nd > 0
                    /\ ex.nd > 0
                    /\ sg.n + ip.n + fp.n + ex.n = Len(t)
            THEN [ok |-> TRUE,
                  v |-> NormFloat(sg.f * (ip.val * Pow10(fp.nd) + fp.val),
                                  fp.nd - ex.val)]
            ELSE [ok |-> FALSE, v |-> VNull]
        AfterFraction(t, sg, ip, fp) ==
            Number(t, sg, ip, fp, ScanExponent(t, 1 + sg.n + ip.n + fp.n))
        AfterInteger(t, sg, ip) ==
            AfterFraction(t, sg, ip, ScanFraction(t, 1 + sg.n + ip.n))
        AfterSign(t, sg) == AfterInteger(t, sg, ScanDigits(t, 1 + sg.n))
        Stripped(t) == AfterSign(t, ScanSign(t, 1))
    IN  Stripped(Strip(s))

\* the decimal digits of a natural number
RECURSIVE DigitsOfNat(_)
DigitsOfNat(n) ==
    IF n < 10 THEN <<DigitSeq[n + 1]>>
    ELSE Append(DigitsOfNat(n \div 10), DigitSeq[(n % 10) + 1])
\* str(i) for an int
PyStrOfInt(i) == IF i < 0 THEN <<"-">> \o DigitsOfNat(-i) ELSE DigitsOfNat(i)

\* n as exactly w digits, zero padded
RECURSIVE ZeroPad(_, _)
ZeroPad(d, w) == IF Len(d) >= w THEN d ELSE ZeroPad(<<"0">> \o d, w)

\* str(f) for a float
PyStrOfFloat(v) ==
    IF v.s # <<>> THEN v.s
    ELSE LET a == IF v.i < 0 THEN -v.i ELSE v.i
             whole == a \div Pow10(v.e)
             frac == a % Pow10(v.e)
         IN  (IF v.i < 0 THEN <<"-">> ELSE <<>>) \o DigitsOfNat(whole) \o <<".">>
             \o (IF v.e = 0 THEN <<"0">> ELSE ZeroPad(DigitsOfNat(frac), v.e))

\* int(f) for a float: truncation toward zero
PyIntOfFloat(v) ==
    IF v.i < 0 THEN -((-v.i) \div Pow10(v.e)) ELSE v.i \div Pow10(v.e)

\* the body of repr(s) for a text s with the given quote
RECURSIVE ReprChars(_, _)
ReprChars(s, q) ==
    IF s = <<>> THEN <<>>
    ELSE (CASE s[1] = "\\" -> <<"\\", "\\">>
            [] s[1] = q -> <<"\\", q>>
            [] s[1] = "\n" -> <<"\\", "n">>
            [] s[1] = "\t" -> <<"\\", "t">>
            [] s[1] = "\r" -> <<"\\", "r">>
            [] OTHER -> <<s[1]>>) \o ReprChars(Tail(s), q)
\* repr(s) for a text s
PyReprOfStr(s) ==
    LET q == IF (\E n \in DOMAIN s : s[n] = "'") /\ ~(\E n \in DOMAIN s : s[n] = "\"")
             THEN "\"" ELSE "'"
    IN  <<q>> \o ReprChars(s, q) \o <<q>>

\* repr(v); str(v) differs from it only for a text at the top
RECURSIVE PyRepr(_)
RECURSIVE PyReprItems(_, _)
RECURSIVE PyReprPairs(_, _)
PyReprItems(l, i) ==
    IF i > Len(l) THEN <<>>
    ELSE (IF i > 1 THEN <<",", " ">> ELSE <<>>) \o PyRepr(l[i]) \o PyReprItems(l, i + 1)
PyReprPairs(m, i) ==
    IF i > Len(m) THEN <<>>
    ELSE (IF i > 1 THEN <<",", " ">> ELSE <<>>) \o PyReprOfStr(m[i][1]) \o <<":", " ">>
         \o PyRepr(m[i][2]) \o PyReprPairs(m, i + 1)
PyRepr(v) ==
    CASE v.t = "null" -> <<"N","o","n","e">>
      [] v.t = "bool" -> IF v.b THEN <<"T","r","u","e">> ELSE <<"F","a","l","s","e">>
      [] v.t = "int" -> PyStrOfInt(v.i)
      [] v.t = "float" -> PyStrOfFloat(v)
      [] v.t = "str" -> PyReprOfStr(v.s)
      [] v.t = "list" -> <<"[">> \o PyReprItems(v.l, 1) \o <<"]">>
      [] OTHER -> <<"{">> \o PyReprPairs(v.m, 1) \o <<"}">>
\* str(v)
PyStr(v) == IF v.t = "str" THEN v.s ELSE PyRepr(v)

---------------------------------------------------------------------------
(* Errors (src/lib/ppc/exceptions.py).  An error is its class name and the *)
(* line it carries (0: none).  The classes of the library are LexerError,  *)
(* ParseError, TypeError, EvaluationError, IncludeError, SecretError; a    *)
(* builtin Python error is named "builtins.TypeError" and so on.           *)

NoErr == [kind |-> "", line |-> 0]
Err(kind, line) == [kind |-> kind, line |-> line]
PPCErrorKinds == {"LexerError", "ParseError", "TypeError", "EvaluationError",
                  "IncludeError", "SecretError"}

---------------------------------------------------------------------------
(* The type system (src/lib/ppc/types.py)                                  *)

TypeNames ==
    << <<<<"s","t","r">>, "str">>, <<<<"s","t","r","i","n","g">>, "str">>,
       <<<<"i","n","t">>, "int">>, <<<<"i","n","t","e","g","e","r">>, "int">>,
       <<<<"f","l","o","a","t">>, "float">>, <<<<"n","u","m","b","e","r">>, "float">>,
       <<<<"b","o","o","l">>, "bool">>, <<<<"b","o","o","l","e","a","n">>, "bool">>,
       <<<<"l","i","s","t">>, "list">>, <<<<"a","r","r","a","y">>, "list">>,
       <<<<"a","n","y">>, "any">> >>

\* PPCType.from_string(type_str): the member, or TypeError("Unknown type")
TypeFromString(type_str) ==
    LET normalized == Strip(Lower(type_str))
    IN  IF DictHas(TypeNames, normalized)
        THEN [ty |-> DictGet(TypeNames, normalized), err |-> NoErr]
        ELSE [ty |-> "", err |-> Err("TypeError", 0)]

TrueWords == {<<"t","r","u","e">>, <<"y","e","s">>, <<"o","n">>}
FalseWords == {<<"f","a","l","s","e">>, <<"n","o">>, <<"o","f","f">>}
NullWords == {<<"n","u","l","l">>, <<"n","o","n","e">>, <<"n","i","l">>}

\* a variant of ValidateInt without the isinstance(value, bool) test: int(True)
\* is 1 and int(False) is 0
ValidateIntOfBool(value, line) ==
    CASE value.t = "bool" -> [v |-> VInt(IF value.b THEN 1 ELSE 0), err |-> NoErr]
      [] value.t = "int" -> [v |-> value, err |-> NoErr]
      [] value.t = "str" /\ PyIntOfStr(value.s).ok ->
            [v |-> VInt(PyIntOfStr(value.s).v), err |-> NoErr]
      [] OTHER -> [v |-> VNull, err |-> Err("TypeError", line)]

\* validate_type, rule INT: int(value), a bool refused; ValueError and the
\* library's TypeError are caught, a builtin TypeError or OverflowError is not
ValidateInt(value, line) ==
    CASE value.t = "bool" -> [v |-> VNull, err |-> Err("TypeError", line)]
      [] value.t = "int" -> [v |-> value, err |-> NoErr]
      [] value.t = "str" ->
            LET r == PyIntOfStr(value.s)
            IN  IF r.ok THEN [v |-> VInt(r.v), err |-> NoErr]
                ELSE [v |-> VNull, err |-> Err("TypeError", line)]
      [] value.t = "float" ->
            IF value.s = <<"n","a","n">>
            THEN [v |-> VNull, err |-> Err("TypeError", line)]
            ELSE IF value.s # <<>>
            THEN [v |-> VNull, err |-> Err("builtins.OverflowError", 0)]
            ELSE [v |-> VInt(PyIntOfFloat(value)), err |-> NoErr]
      [] OTHER -> [v |-> VNull, err |-> Err("builtins.TypeError", 0)]

\* validate_type, rule FLOAT
ValidateFloat(value, line) ==
    CASE value.t = "bool" -> [v |-> VNull, err |-> Err("TypeError", line)]
      [] value.t = "int" -> [v |-> VFloat(value.i, 0), err |-> NoErr]
      [] value.t = "float" -> [v |-> value, err |-> NoErr]
      [] value.t = "str" ->
            LET r == PyFloatOfStr(value.s)
            IN  IF r.ok THEN [v |-> r.v, err |-> NoErr]
                ELSE [v |-> VNull, err |-> Err("TypeError", line)]
      [] OTHER -> [v |-> VNull, err |-> Err("builtins.TypeError", 0)]

\* validate_type, rule BOOL
ValidateBool(value, line) ==
    IF value.t = "bool" THEN [v |-> value, err |-> NoErr]
    ELSE IF value.t = "str" /\ Lower(value.s) \in TrueWords \cup {<<"1">>}
    THEN [v |-> VBool(TRUE), err |-> NoErr]
    ELSE IF value.t = "str" /\ Lower(value.s) \in FalseWords \cup {<<"0">>}
    THEN [v |-> VBool(FALSE), err |-> NoErr]
    ELSE [v |-> VNull, err |-> Err("TypeError", line)]

\* validate_type(value, expected_type, line): the converted value or the error
ValidateType(value, ty, line) ==
    CASE ty = "any" -> [v |-> value, err |-> NoErr]
      [] ty = "str" -> [v |-> VStr(PyStr(value)), err |-> NoErr]
      [] ty = "int" -> ValidateInt(value, line)
      [] ty = "float" -> ValidateFloat(value, line)
      [] ty = "bool" -> ValidateBool(value, line)
      [] ty = "list" -> IF value.t = "list" THEN [v |-> value, err |-> NoErr]
                        ELSE [v |-> VNull, err |-> Err("TypeError", line)]
      [] OTHER -> [v |-> value, err |-> NoErr]

---------------------------------------------------------------------------
(* The environment and the secret providers (src/lib/ppc/secrets.py)       *)
(* os.environ and a secrets dict are functions from names to texts.  A     *)
(* lookup log records every os.environ.get and every provider call:        *)
(* <<"env", name>> by the evaluator, <<"penv", name>> by a provider,       *)
(* <<"secret", key>> a call of the evaluator's provider.                   *)

\* dict.get(name) on a function from names to texts: None or the text
TableGet(table, name) ==
    IF name \in DOMAIN table THEN Some(table[name]) ELSE None

SecretPrefix == <<"S","E","C","R","E","T","_">>
PepePrefix == <<"P","E","P","E","C","O","N","F","I","G","_","S","E","C","R","E","T","_">>

\* the provider objects
EnvProvider == [kind |-> "env", table |-> <<>>, members |-> <<>>]
DictProvider(secrets) == [kind |-> "dict", table |-> secrets, members |-> <<>>]
FileProvider(secrets) == [kind |-> "file", table |-> secrets, members |-> <<>>]
\* a caller's own function, given by the texts it returns
CustomProvider(table) == [kind |-> "custom", table |-> table, members |-> <<>>]
ChainProvider(providers) == [kind |-> "chain", table |-> <<>>, members |-> providers]

\* EnvSecretProvider.get(key): SECRET_<key>, then PEPECONFIG_SECRET_<key>; an
\* empty text counts as unset
EnvSecretGet(env, key) ==
    LET first == TableGet(env, SecretPrefix \o key)
        second == TableGet(env, PepePrefix \o key)
    IN  IF first # None /\ first[1] # <<>>
        THEN [v |-> first, log |-> << <<"penv", SecretPrefix \o key>> >>]
        ELSE [v |-> IF second # None /\ second[1] # <<>> THEN second ELSE None,
              log |-> << <<"penv", SecretPrefix \o key>>,
                         <<"penv", PepePrefix \o key>> >>]

\* get(key) of a provider that is not a chain
MemberGet(p, env, key) ==
    IF p.kind = "env" THEN EnvSecretGet(env, key)
    ELSE [v |-> TableGet(p.table, key), log |-> <<>>]

\* a variant of ChainGetFrom in which a later provider's value replaces an
\* earlier one's
RECURSIVE ChainGetLastFrom(_, _, _, _, _)
ChainGetLastFrom(providers, env, key, i, log) ==
    IF i > Len(providers) THEN [v |-> None, log |-> log]
    ELSE LET Later(r) ==
                 IF r.v # None THEN r
                 ELSE [v |-> MemberGet(providers[i], env, key).v, log |-> log]
         IN  Later(ChainGetLastFrom(providers, env, key, i + 1, log))

\* ChainedSecretProvider.get(key): the first value that is not None
RECURSIVE ChainGetFrom(_, _, _, _, _)
ChainGetFrom(providers, env, key, i, log) ==
    IF i > Len(providers) THEN [v |-> None, log |-> log]
    ELSE LET r == MemberGet(providers[i], env, key)
         IN  IF r.v # None THEN [v |-> r.v, log |-> log \o r.log]
             ELSE ChainGetFrom(providers, env, key, i + 1, log \o r.log)

\* provider.get(key)
ProviderGet(p, env, key) ==
    IF p.kind = "chain" THEN ChainGetFrom(p.members, env, key, 1, <<>>)
    ELSE MemberGet(p, env, key)

\* create_secret_provider(env, file_path, secrets).  file_path and secrets
\* are optional; a file is [exists, table]; a missing file raises SecretError
\* when the FileSecretProvider is built.
CreateSecretProvider(useEnv, file_path, secrets) ==
    LET p1 == IF secrets # None /\ DOMAIN secrets[1] # {}
              THEN <<DictProvider(secrets[1])>> ELSE <<>>
        p2 == IF file_path # None THEN <<FileProvider(file_path[1].table)>> ELSE <<>>
        p3 == IF useEnv THEN <<EnvProvider>> ELSE <<>>
        providers == p1 \o p2 \o p3
    IN  IF file_path # None /\ ~file_path[1].exists
        THEN [p |-> EnvProvider, err |-> Err("SecretError", 0)]
        ELSE IF Len(providers) = 0 THEN [p |-> EnvProvider, err |-> NoErr]
        ELSE IF Len(providers) = 1 THEN [p |-> providers[1], err |-> NoErr]
        ELSE [p |-> ChainProvider(providers), err |-> NoErr]

---------------------------------------------------------------------------
(* The lexer (src/lib/ppc/lexer.py)                                        *)
(* A Lexer object is a record: the text, pos (1-based; past the end when   *)
(* the current character is None), line, column, the tokens emitted, buf   *)
(* (the text the last read helper returned), ctl (the calls in progress,   *)
(* outermost first: "top" for tokenize and "array" for each _read_array    *)
(* whose loop is running), err (the LexerError raised, with its line and   *)
(* column) and done.  A token is [type, value, line, column].  The token   *)
(* lists the helpers return are extended into the caller's in order, so    *)
(* the tokens are held as the one list they end up as.                     *)

Token(type, value, line, column) ==
    [type |-> type, value |-> value, line |-> line, column |-> column]
NoLexErr == [kind |-> "", line |-> 0, column |-> 0]
Lexer(text) ==
    [text |-> text, pos |-> 1, line |-> 1, column |-> 1, tokens |-> <<>>,
     buf |-> <<>>, ctl |-> <<"top">>, err |-> NoLexErr, done |-> FALSE]

\* _current_char() and _peek(); None is ""
Cur(L) == IF L.pos <= Len(L.text) THEN L.text[L.pos] ELSE ""
PeekChar(L) == IF L.pos + 1 <= Len(L.text) THEN L.text[L.pos + 1] ELSE ""

\* _advance(count)
RECURSIVE Advance(_, _)
Advance(L, count) ==
    IF count = 0 \/ L.pos > Len(L.text) THEN L
    ELSE Advance([L EXCEPT !.pos = L.pos + 1,
                           !.line = IF L.text[L.pos] = "\n" THEN L.line + 1 ELSE L.line,
                           !.column = IF L.text[L.pos] = "\n" THEN 1 ELSE L.column + 1],
                 count - 1)

\* _skip_whitespace_on_line()
RECURSIVE SkipWs(_)
SkipWs(L) == IF Cur(L) \in {" ", "\t"} THEN SkipWs(Advance(L, 1)) ELSE L

\* the read loops: characters are added to buf while the test holds
RECURSIVE ReadUntilFrom(_, _)
ReadUntilFrom(L, end_chars) ==
    IF Cur(L) # "" /\ Cur(L) \notin end_chars
    THEN ReadUntilFrom(Advance([L EXCEPT !.buf = Append(L.buf, Cur(L))], 1), end_chars)
    ELSE L
\* _read_until(end_chars)
ReadUntil(L, end_chars) == ReadUntilFrom([L EXCEPT !.buf = <<>>], end_chars)
RECURSIVE ReadWhileFrom(_, _)
ReadWhileFrom(L, chars) ==
    IF Cur(L) \in chars
    THEN ReadWhileFrom(Advance([L EXCEPT !.buf = Append(L.buf, Cur(L))], 1), chars)
    ELSE L
ReadWhile(L, chars) == ReadWhileFrom([L EXCEPT !.buf = <<>>], chars)

AlnumChars == Lowers \cup Uppers \cup Digits

\* the loop of _read_string(quote_char) after the opening quote
RECURSIVE ReadStringFrom(_, _)
ReadStringFrom(L, quote_char) ==
    IF Cur(L) = "" THEN L
    ELSE IF Cur(L) = "\\"
    THEN ReadStringFrom(
             Advance([L EXCEPT !.buf =
                         L.buf \o (CASE PeekChar(L) = "n" -> <<"\n">>
                                     [] PeekChar(L) = "t" -> <<"\t">>
                                     [] PeekChar(L) = "" -> <<>>
                                     [] OTHER -> <<PeekChar(L)>>)], 2),
             quote_char)
    ELSE IF Cur(L) = quote_char THEN Advance(L, 1)
    ELSE ReadStringFrom(Advance([L EXCEPT !.buf = Append(L.buf, Cur(L))], 1), quote_char)
\* _read_string(quote_char)
ReadString(L, quote_char) ==
    ReadStringFrom(Advance([L EXCEPT !.buf = <<>>], 1), quote_char)

Emit(L, type, value, line, column) ==
    [L EXCEPT !.tokens = Append(L.tokens, Token(type, value, line, column))]
RaiseLexerError(L, line, column) ==
    [L EXCEPT !.err = [kind |-> "LexerError", line |-> line, column |-> column],
              !.ctl = <<>>]

\* the token of a non-empty unquoted value in _read_value_token
BareType(value) ==
    IF Lower(value) \in TrueWords \cup FalseWords THEN "BOOLEAN"
    ELSE IF Lower(value) \in NullWords THEN "NULL"
    ELSE IF "." \in Range(value)
    THEN (IF PyFloatOfStr(value).ok THEN "NUMBER" ELSE "STRING")
    ELSE (IF PyIntOfStr(value).ok THEN "NUMBER" ELSE "STRING")
BareValue(value) ==
    IF Lower(value) \in TrueWords THEN <<"t","r","u","e">>
    ELSE IF Lower(value) \in FalseWords THEN <<"f","a","l","s","e">>
    ELSE IF Lower(value) \in NullWords THEN <<"n","u","l","l">>
    ELSE value

BareEndChars == {" ", "\t", "\n", "#", ",", "]", "?"}
EnvWord == <<"e","n","v">>
SecretWord == <<"s","e","c","r","e","t">>

\* _read_value_token() from its first line to the point where it returns or
\* calls _read_array: in the second case "array" is pushed on ctl, and the
\* call goes on (from the check for the default operator) when that array's
\* loop is left.  ReadDefault is the check for the default operator.
RECURSIVE ReadValueToken(_)
ReadDefault(L) ==
    LET Then(r) ==
            IF Cur(r) = "?" /\ PeekChar(r) = "?"
            THEN ReadValueToken(
                     SkipWs(Advance(Emit(r, "DEFAULT_OP", <<"?","?">>, r.line, r.column), 2)))
            ELSE r
    IN  Then(SkipWs(L))
ReadReference(L, type, skip, start_line, start_col) ==
    LET Then(r) == ReadDefault(Emit(r, type, r.buf, start_line, start_col))
    IN  Then(ReadWhile(Advance(L, skip), AlnumChars \cup {"_"}))
ReadBare(L, start_line, start_col) ==
    LET Then(r) ==
            IF r.buf = <<>> THEN r
            ELSE ReadDefault(Emit(r, BareType(r.buf), BareValue(r.buf),
                                  start_line, start_col))
    IN  Then(ReadUntil(L, BareEndChars))
ReadValueToken(L) ==
    IF Cur(L) \in {"\"", "'"}
    THEN LET Then(r) == ReadDefault(Emit(r, "STRING", r.buf, L.line, L.column))
         IN  Then(ReadString(L, Cur(L)))
    ELSE IF Cur(L) = "["
    THEN [Advance(Emit(L, "LBRACKET", <<"[">>, L.line, L.column), 1)
             EXCEPT !.ctl = Append(L.ctl, "array")]
    ELSE IF Cur(L) = "$"
    THEN IF StartsWithAt(L.text, L.pos + 1, EnvWord)
         THEN ReadReference(Advance(L, 1), "ENV_VAR", 4, L.line, L.column)
         ELSE IF StartsWithAt(L.text, L.pos + 1, SecretWord)
         THEN ReadReference(Advance(L, 1), "SECRET", 7, L.line, L.column)
         ELSE RaiseLexerError(L, L.line, L.column)
    ELSE ReadBare(L, L.line, L.column)

\* what the caller of _read_value_token does when the call has returned:
\* _read_array skips blanks and takes a comma, tokenize does nothing more
AfterValue(L) ==
    IF L.ctl # <<>> /\ L.ctl[Len(L.ctl)] = "array"
    THEN LET Then(r) ==
                 IF Cur(r) = ","
                 THEN Advance(Emit(r, "COMMA", <<",">>, r.line, r.column), 1)
                 ELSE r
         IN  Then(SkipWs(L))
    ELSE L
\* r is the lexer after a call of ReadValueToken or ReadDefault made with d
\* calls in progress: the value's reading has returned unless the call
\* raised or is now inside _read_array
ValueRead(r, d) ==
    IF r.err # NoLexErr \/ Len(r.ctl) > d THEN r ELSE AfterValue(r)

\* the end of _read_array: its loop is left, the closing bracket is taken
\* if it is there, and the _read_value_token that called it goes on
ArrayReturn(L) ==
    LET Pop(r) == [r EXCEPT !.ctl = SubSeq(r.ctl, 1, Len(r.ctl) - 1)]
        Then(r) == ValueRead(ReadDefault(r), Len(r.ctl))
    IN  IF Cur(L) = "]"
        THEN Then(Pop(Advance(Emit(L, "RBRACKET", <<"]">>, L.line, L.column), 1)))
        ELSE Then(Pop(L))

\* the inner loop of _read_array that skips newlines
RECURSIVE SkipNewlines(_)
SkipNewlines(L) ==
    IF Cur(L) = "\n" THEN SkipNewlines(SkipWs(Advance(L, 1))) ELSE L

\* whether the loop of _read_array goes round again
ArrayLoops(L) == Cur(L) # "" /\ Cur(L) # "]"
\* one iteration of the loop of _read_array
ArrayIteration(L) ==
    LET Then(r) ==
            IF Cur(r) = "]" THEN ArrayReturn(r)
            ELSE IF Cur(r) = "#" THEN ReadUntil(r, {"\n"})
            ELSE ValueRead(ReadValueToken(r), Len(L.ctl))
    IN  Then(SkipNewlines(SkipWs(L)))

WhenWord == <<"@","w","h","e","n">>
IncludeWord == <<"@","i","n","c","l","u","d","e">>
Spaces(n) == [x \in 1..n |-> " "]

\* the branches of the loop of tokenize
TopNewline(L) ==
    LET Then(r) ==
            IF r.pos - (L.pos + 1) > 0 /\ Cur(r) \notin {"", "\n", "#"}
            THEN Emit(r, "INDENT", Spaces(r.pos - (L.pos + 1)), r.line, 1)
            ELSE r
    IN  Then(SkipWs(Advance(Emit(L, "NEWLINE", <<"\\", "n">>, L.line, L.column), 1)))
TopComment(L) ==
    LET Then(r) == Emit(r, "COMMENT", Strip(r.buf), L.line, L.column)
    IN  Then(ReadUntil(L, {"\n"}))
TopSection(L) ==
    LET When(r) == Emit(r, "SECTION_WHEN", Strip(r.buf), L.line, L.column)
        Name(r) == Emit(r, "SECTION", Strip(r.buf), L.line, L.column)
        Then(r) ==
            IF StartsWithAt(r.text, r.pos, WhenWord)
            THEN When(ReadUntil(SkipWs(Advance(r, 5)), {"\n"}))
            ELSE Name(ReadUntil(r, {"\n", "#"}))
    IN  Then(SkipWs(Advance(L, 2)))
TopInclude(L) ==
    LET Path(r) == Emit(r, "INCLUDE", r.buf, L.line, L.column)
        Bare(r) == Emit(r, "INCLUDE", Strip(r.buf), L.line, L.column)
        Then(r) ==
            IF Cur(r) \in {"\"", "'"} THEN Path(ReadString(r, Cur(r)))
            ELSE Bare(ReadUntil(r, {"\n", "#"}))
    IN  Then(SkipWs(Advance(L, 8)))
TopEquals(L) ==
    IF Cur(L) = "="
    THEN ValueRead(
             ReadValueToken(SkipWs(Advance(Emit(L, "EQUALS", <<"=">>, L.line, L.column), 1))),
             Len(L.ctl))
    ELSE L
TopKey(L) ==
    LET Hint(r) == TopEquals(SkipWs(Emit(r, "TYPE_HINT", r.buf, r.line, r.column)))
        Typed(r) ==
            IF Cur(r) = ":" /\ PeekChar(r) = ":"
            THEN Hint(ReadWhile(SkipWs(Advance(r, 2)), AlnumChars))
            ELSE TopEquals(r)
        Then(r) == Typed(SkipWs(Emit(r, "KEY", r.buf, L.line, L.column)))
    IN  Then(ReadWhile(L, AlnumChars \cup {"_", "-"}))

\* whether the loop of tokenize goes round again
TopLoops(L) == Cur(L) # ""
\* one iteration of the loop of tokenize
TopIteration(L) ==
    IF Cur(L) = "\n" THEN TopNewline(L)
    ELSE IF Cur(L) \in {" ", "\t"} THEN SkipWs(L)
    ELSE IF Cur(L) = "#" THEN TopComment(L)
    ELSE IF Cur(L) = ">" /\ PeekChar(L) = ">" THEN TopSection(L)
    ELSE IF StartsWithAt(L.text, L.pos, IncludeWord) THEN TopInclude(L)
    ELSE IF Cur(L) \in AlnumChars \cup {"_"} THEN TopKey(L)
    ELSE RaiseLexerError(L, L.line, L.column)
\* the end of tokenize
TopReturn(L) ==
    [Emit(L, "EOF", <<>>, L.line, L.column) EXCEPT !.done = TRUE, !.ctl = <<>>]

\* the lexer's next step: an iteration of the innermost running loop, or
\* the return from it
LexRunning(L) == ~L.done /\ L.err = NoLexErr
InArray(L) == L.ctl # <<>> /\ L.ctl[Len(L.ctl)] = "array"
LexStep(L) ==
    IF InArray(L)
    THEN (IF ArrayLoops(L) THEN ArrayIteration(L) ELSE ArrayReturn(L))
    ELSE (IF TopLoops(L) THEN TopIteration(L) ELSE TopReturn(L))

\* Lexer(text).tokenize(): the lexer when it has returned or raised, or the
\* lexer at an iteration that changes nothing and so is repeated for ever
RECURSIVE LexRun(_)
LexRun(L) ==
    LET Then(r) == IF r = L THEN L ELSE LexRun(r)
    IN  IF LexRunning(L) THEN Then(LexStep(L)) ELSE L
Tokenize(text) == LexRun(Lexer(text))

---------------------------------------------------------------------------
(* The AST (src/lib/ppc/parser.py)                                         *)
(* ValueNode: value, type_hint, env_var, secret, default, line; the        *)
(* optional fields are sequences of length 0 or 1.  An array literal is a  *)
(* list value whose env and secret items are the dicts {"$env": name} and  *)
(* {"$secret": name}.                                                      *)

ValueNode(value, line) ==
    [value |-> value, type_hint |-> None, env_var |-> None, secret |-> None,
     default |-> None, line |-> line]
EnvNode(name, default, line) ==
    [ValueNode(VNull, line) EXCEPT !.env_var = Some(name), !.default = default]
SecretNode(name, default, line) ==
    [ValueNode(VNull, line) EXCEPT !.secret = Some(name), !.default = default]
WithHint(node, type_hint) == [node EXCEPT !.type_hint = Some(type_hint)]

AssignmentNode(key, value, line) == [key |-> key, value |-> value, line |-> line]
SectionNode(name, assignments, line) ==
    [name |-> name, assignments |-> assignments, line |-> line]
ConditionalNode(condition, sections, line) ==
    [condition |-> condition, sections |-> sections, line |-> line]
IncludeNode(path, line) == [path |-> path, line |-> line]
AST(sections, conditionals, includes) ==
    [sections |-> sections, conditionals |-> conditionals, includes |-> includes]

EnvItemKey == <<"$","e","n","v">>
SecretItemKey == <<"$","s","e","c","r","e","t">>
EnvItem(name) == VMap(<< <<EnvItemKey, VStr(name)>> >>)
SecretItem(name) == VMap(<< <<SecretItemKey, VStr(name)>> >>)

\* the truth value of an optional text: None and "" are false
Truthy(opt) == opt # None /\ opt[1] # <<>>

---------------------------------------------------------------------------
(* The parser (src/lib/ppc/parser.py)                                      *)
(* The parser works on toks, the tokens without the COMMENT and NEWLINE    *)
(* ones, and a position in them (1-based).  current_section is None or a   *)
(* reference to a SectionNode of the AST: <<"s", i>> is ast.sections[i],   *)
(* <<"c", i, j>> is ast.conditionals[i].sections[j].                       *)

\* the type of _current(); None is ""
TokType(toks, pos) == IF pos <= Len(toks) THEN toks[pos].type ELSE ""
TokLine(toks, pos) == IF pos <= Len(toks) THEN toks[pos].line ELSE 0
\* a variant of SkipIndent that skips nothing
SkipIndentNot(toks, pos) == pos

\* _skip_indent()
RECURSIVE SkipIndent(_, _)
SkipIndent(toks, pos) ==
    IF TokType(toks, pos) = "INDENT" THEN SkipIndent(toks, pos + 1) ELSE pos

ParseResult(node, pos, err) == [node |-> node, pos |-> pos, err |-> err]

\* the ValueNode _parse_value builds from one token that is not a bracket
TokenNode(tok) ==
    CASE tok.type = "ENV_VAR" -> Some(EnvNode(tok.value, None, tok.line))
      [] tok.type = "SECRET" -> Some(SecretNode(tok.value, None, tok.line))
      [] tok.type = "STRING" -> Some(ValueNode(VStr(tok.value), tok.line))
      [] tok.type = "NUMBER" ->
             Some(ValueNode(IF "." \in Range(tok.value)
                            THEN PyFloatOfStr(tok.value).v
                            ELSE VInt(PyIntOfStr(tok.value).v), tok.line))
      [] tok.type = "BOOLEAN" ->
             Some(ValueNode(VBool(tok.value = <<"t","r","u","e">>), tok.line))
      [] tok.type = "NULL" -> Some(ValueNode(VNull, tok.line))
      [] OTHER -> None

\* what _parse_array appends to items for a parsed ValueNode
ArrayItem(node) ==
    IF Truthy(node.env_var) THEN EnvItem(node.env_var[1])
    ELSE IF Truthy(node.secret) THEN SecretItem(node.secret[1])
    ELSE node.value

RECURSIVE ParseValue(_, _)
RECURSIVE ParseArrayFrom(_, _, _)
\* _parse_array(): the node of ParseResult is the list of items
ParseArray(toks, pos) == ParseArrayFrom(toks, pos + 1, <<>>)
ParseArrayFrom(toks, pos, items) ==
    LET Expect(p) ==
            IF TokType(toks, p) = "RBRACKET" THEN ParseResult(items, p + 1, NoErr)
            ELSE ParseResult(items, p, Err("ParseError", TokLine(toks, p)))
        Comma(p) ==
            IF TokType(toks, p) = "COMMA" THEN p + 1 ELSE p
        Item(r) ==
            IF r.err # NoErr THEN ParseResult(items, r.pos, r.err)
            ELSE ParseArrayFrom(toks, Comma(SkipIndent(toks, r.pos)),
                                Append(items, ArrayItem(r.node)))
        Body(p) ==
            IF TokType(toks, p) = ""
            THEN ParseResult(items, p, Err("builtins.AttributeError", 0))
            ELSE IF TokType(toks, p) = "RBRACKET" THEN Expect(p)
            ELSE Item(ParseValue(toks, p))
    IN  IF TokType(toks, pos) \notin {"", "RBRACKET"}
        THEN Body(SkipIndent(toks, pos))
        ELSE Expect(pos)
\* _parse_value()
ParseValue(toks, pos0) ==
    LET Array(line, r) ==
            ParseResult(ValueNode(VList(r.node), line), r.pos, r.err)
        Defaulted(node, r) ==
            ParseResult([node EXCEPT !.default = Some(r.node)], r.pos, r.err)
        Default(node, p) ==
            IF TokType(toks, p) = "DEFAULT_OP"
            THEN Defaulted(node, ParseValue(toks, p + 1))
            ELSE ParseResult(node, p, NoErr)
        Plain(p, node) ==
            IF node = None
            THEN ParseResult(ValueNode(VNull, TokLine(toks, p)), p,
                             Err("ParseError", TokLine(toks, p)))
            ELSE Default(node[1], p + 1)
        Then(p) ==
            IF TokType(toks, p) = ""
            THEN ParseResult(ValueNode(VNull, 0), p, Err("ParseError", 0))
            ELSE IF TokType(toks, p) = "LBRACKET"
            THEN Array(TokLine(toks, p), ParseArray(toks, p))
            ELSE Plain(p, TokenNode(toks[p]))
    IN  Then(SkipIndent(toks, pos0))

\* _parse_assignment(): the node of ParseResult is the AssignmentNode
ParseAssignment(toks, pos0) ==
    LET NoNode == AssignmentNode(<<>>, ValueNode(VNull, 0), 0)
        Fail(p) == ParseResult(NoNode, p, Err("ParseError", TokLine(toks, p)))
        Valued(key, type_hint, r) ==
            ParseResult(AssignmentNode(key.value,
                                       [r.node EXCEPT !.type_hint = type_hint],
                                       key.line),
                        r.pos, r.err)
        Equals(key, type_hint, p) ==
            IF TokType(toks, p) = "EQUALS"
            THEN Valued(key, type_hint, ParseValue(toks, p + 1))
            ELSE Fail(p)
        Hint(key, p) ==
            IF TokType(toks, p) = "TYPE_HINT"
            THEN Equals(key, Some(toks[p].value), p + 1)
            ELSE Equals(key, None, p)
        Then(p) ==
            IF TokType(toks, p) = "KEY" THEN Hint(toks[p], p + 1) ELSE Fail(p)
    IN  Then(SkipIndent(toks, pos0))

\* section.assignments.append(assignment) on the section referred to
AppendAssignment(ast, ref, assignment) ==
    IF ref[1] = "s"
    THEN [ast EXCEPT !.sections[ref[2]].assignments = Append(@, assignment)]
    ELSE [ast EXCEPT !.conditionals[ref[2]].sections[ref[3]].assignments =
                         Append(@, assignment)]
\* an assignment outside every section goes to the implicit root section,
\* made at the head of ast.sections unless the first section is named ""
AppendGlobal(ast, assignment, line) ==
    IF ast.sections = <<>> \/ ast.sections[1].name # <<>>
    THEN [ast EXCEPT !.sections =
                         <<SectionNode(<<>>, <<assignment>>, line)>> \o @]
    ELSE AppendAssignment(ast, <<"s", 1>>, assignment)

ParseOutcome(ast, err) == [ast |-> ast, err |-> err]

RECURSIVE ParseFrom(_, _, _, _)
RECURSIVE ParseWhenSections(_, _, _, _)
RECURSIVE ParseWhenKeys(_, _, _, _)
\* the loop over the assignments of a section of a conditional
ParseWhenKeys(toks, pos, ast, current_section) ==
    LET Then(r) ==
            IF r.err # NoErr THEN ParseOutcome(ast, r.err)
            ELSE ParseWhenKeys(toks, SkipIndent(toks, r.pos),
                               AppendAssignment(ast, current_section, r.node),
                               current_section)
    IN  IF TokType(toks, pos) = "KEY" THEN Then(ParseAssignment(toks, pos))
        ELSE ParseWhenSections(toks, pos, ast, current_section)
\* the loop over the sections of the last conditional
ParseWhenSections(toks, pos, ast, current_section) ==
    LET c == Len(ast.conditionals)
    IN  IF TokType(toks, pos) = "SECTION"
        THEN ParseWhenKeys(
                 toks, SkipIndent(toks, pos + 1),
                 [ast EXCEPT !.conditionals[c].sections =
                      Append(@, SectionNode(toks[pos].value, <<>>, toks[pos].line))],
                 <<"c", c, Len(ast.conditionals[c].sections) + 1>>)
        ELSE ParseFrom(toks, pos, ast, current_section)
\* the loop of parse()
ParseFrom(toks, pos0, ast, current_section) ==
    LET Assigned(r, line) ==
            IF r.err # NoErr THEN ParseOutcome(ast, r.err)
            ELSE IF current_section # None
            THEN ParseFrom(toks, r.pos,
                           AppendAssignment(ast, current_section, r.node),
                           current_section)
            ELSE ParseFrom(toks, r.pos, AppendGlobal(ast, r.node, line), None)
        Then(p) ==
            IF TokType(toks, p) \in {"", "EOF"} THEN ParseOutcome(ast, NoErr)
            ELSE IF TokType(toks, p) = "SECTION"
            THEN ParseFrom(toks, p + 1,
                           [ast EXCEPT !.sections =
                                Append(@, SectionNode(toks[p].value, <<>>, toks[p].line))],
                           <<"s", Len(ast.sections) + 1>>)
            ELSE IF TokType(toks, p) = "SECTION_WHEN"
            THEN ParseWhenSections(
                     toks, SkipIndent(toks, p + 1),
                     [ast EXCEPT !.conditionals =
                          Append(@, ConditionalNode(toks[p].value, <<>>, toks[p].line))],
                     None)
            ELSE IF TokType(toks, p) = "INCLUDE"
            THEN ParseFrom(toks, p + 1,
                           [ast EXCEPT !.includes =
                                Append(@, IncludeNode(toks[p].value, toks[p].line))],
                           current_section)
            ELSE IF TokType(toks, p) = "KEY"
            THEN Assigned(ParseAssignment(toks, p), toks[p].line)
            ELSE ParseFrom(toks, p + 1, ast, current_section)
    IN  IF TokType(toks, pos0) \in {"", "EOF"} THEN ParseOutcome(ast, NoErr)
        ELSE Then(SkipIndent(toks, pos0))

\* Parser(tokens).parse(): [ast, err]
IsParsed(tok) == tok.type \notin {"COMMENT", "NEWLINE"}
ParseTokens(tokens) ==
    ParseFrom(SelectSeq(tokens, IsParsed), 1, AST(<<>>, <<>>, <<>>), None)
\* parse(text): [ast, err, hang]; hang when tokenize does not end
ParseLexed(L) ==
    LET Outcome(r) == [ast |-> r.ast, err |-> r.err, hang |-> FALSE]
    IN  IF L.err # NoLexErr
        THEN [ast |-> AST(<<>>, <<>>, <<>>), err |-> Err(L.err.kind, L.err.line),
              hang |-> FALSE]
        ELSE IF ~L.done
        THEN [ast |-> AST(<<>>, <<>>, <<>>), err |-> NoErr, hang |-> TRUE]
        ELSE Outcome(ParseTokens(L.tokens))
Parse(text) == ParseLexed(Tokenize(text))

---------------------------------------------------------------------------
(* Value resolution (src/lib/ppc/evaluator.py)                             *)
(* The evaluator's secret_provider is optional: None or a provider.        *)

\* a variant of EnvValue that takes an empty text for an unset variable
EnvValueOrNone(env, name) ==
    IF name \in DOMAIN env /\ env[name] # <<>> THEN VStr(env[name]) ELSE VNull

\* os.environ.get(name) as a Python value
EnvValue(env, name) ==
    IF name \in DOMAIN env THEN VStr(env[name]) ELSE VNull
OptValue(opt) == IF opt = None THEN VNull ELSE VStr(opt[1])

\* a variant of SecretLookup that falls through to SECRET_<name> of the
\* environment when the provider has no value
SecretLookupFallThrough(name, env, provider) ==
    LET Asked(r) ==
            IF r.v # None
            THEN [v |-> OptValue(r.v), log |-> << <<"secret", name>> >> \o r.log]
            ELSE [v |-> IF SecretPrefix \o name \in DOMAIN env
                        THEN VStr(env[SecretPrefix \o name]) ELSE VNull,
                  log |-> << <<"secret", name>> >> \o r.log
                          \o << <<"env", SecretPrefix \o name>> >>]
    IN  IF provider # None THEN Asked(ProviderGet(provider[1], env, name))
        ELSE [v |-> IF SecretPrefix \o name \in DOMAIN env
                    THEN VStr(env[SecretPrefix \o name]) ELSE VNull,
              log |-> << <<"env", SecretPrefix \o name>> >>]

\* the secret lookup of _evaluate_value and _evaluate_array: the provider
\* when one is configured, else SECRET_<name> of the environment
SecretLookup(name, env, provider) ==
    LET Asked(r) == [v |-> OptValue(r.v), log |-> << <<"secret", name>> >> \o r.log]
    IN  IF provider # None THEN Asked(ProviderGet(provider[1], env, name))
        ELSE [v |-> EnvValue(env, SecretPrefix \o name),
              log |-> << <<"env", SecretPrefix \o name>> >>]

\* Evaluator._evaluate_array(arr): [v, log]
RECURSIVE EvaluateArrayFrom(_, _, _, _, _, _)
EvaluateArrayFrom(arr, i, env, provider, result, log) ==
    LET Resolved(r) ==
            EvaluateArrayFrom(arr, i + 1, env, provider, Append(result, r.v),
                              log \o r.log)
        Item(item) ==
            IF item.t = "map" /\ DictHas(item.m, EnvItemKey)
            THEN Resolved([v |-> EnvValue(env, DictGet(item.m, EnvItemKey).s),
                           log |-> << <<"env", DictGet(item.m, EnvItemKey).s>> >>])
            ELSE IF item.t = "map" /\ DictHas(item.m, SecretItemKey)
            THEN Resolved(SecretLookup(DictGet(item.m, SecretItemKey).s, env, provider))
            ELSE Resolved([v |-> item, log |-> <<>>])
    IN  IF i > Len(arr) THEN [v |-> result, log |-> log] ELSE Item(arr[i])
EvaluateArray(arr, env, provider) ==
    EvaluateArrayFrom(arr, 1, env, provider, <<>>, <<>>)

\* lines 100-106 of _evaluate_value: the type hint applied to a value that
\* is not None; every exception becomes EvaluationError with the node's line
ApplyTypeHint(node, value) ==
    LET Coerced(ty) ==
            LET Caught(r) ==
                    IF r.err # NoErr
                    THEN [v |-> VNull, err |-> Err("EvaluationError", node.line)]
                    ELSE [v |-> r.v, err |-> NoErr]
            IN  IF ty.err # NoErr
                THEN [v |-> VNull, err |-> Err("EvaluationError", node.line)]
                ELSE Caught(ValidateType(value, ty.ty, node.line))
    IN  IF Truthy(node.type_hint) /\ value.t # "null"
        THEN Coerced(TypeFromString(node.type_hint[1]))
        ELSE [v |-> value, err |-> NoErr]

\* Evaluator._evaluate_value(node): [v, err, log]
RECURSIVE EvaluateValue(_, _, _)
EvaluateValue(node, env, provider) ==
    LET Fallback(d, log) == [v |-> d.v, err |-> d.err, log |-> log \o d.log]
        \* a looked-up value r = [v, log]: the default when it is None
        Looked(r) ==
            IF r.v.t = "null" /\ node.default # None
            THEN Fallback(EvaluateValue(node.default[1], env, provider), r.log)
            ELSE [v |-> r.v, err |-> NoErr, log |-> r.log]
        Array(r) == [v |-> VList(r.v), err |-> NoErr, log |-> r.log]
        Hinted(primary, h) == [v |-> h.v, err |-> h.err, log |-> primary.log]
        Typed(primary) ==
            IF primary.err # NoErr THEN primary
            ELSE Hinted(primary, ApplyTypeHint(node, primary.v))
    IN  IF Truthy(node.env_var)
        THEN Typed(Looked([v |-> EnvValue(env, node.env_var[1]),
                           log |-> << <<"env", node.env_var[1]>> >>]))
        ELSE IF Truthy(node.secret)
        THEN Typed(Looked(SecretLookup(node.secret[1], env, provider)))
        ELSE IF node.value.t = "list"
        THEN Typed(Array(EvaluateArray(node.value.l, env, provider)))
        ELSE Typed([v |-> node.value, err |-> NoErr, log |-> <<>>])

\* str.split(sep) for a one-character separator
RECURSIVE SplitFrom(_, _, _, _)
SplitFrom(s, sep, i, cur) ==
    IF i > Len(s) THEN <<cur>>
    ELSE IF s[i] = sep THEN <<cur>> \o SplitFrom(s, sep, i + 1, <<>>)
    ELSE SplitFrom(s, sep, i + 1, Append(cur, s[i]))
Split(s, sep) == SplitFrom(s, sep, 1, <<>>)

\* a variant of AssignFrom that goes on to the assignments after the one that
\* raised, and raises the first error at the end
RECURSIVE AssignFromAll(_, _, _, _, _, _)
AssignFromAll(current, assignments, i, env, provider, log) ==
    LET Rest(first, r) == [v |-> current, err |-> first, log |-> r.log]
        Write(r) ==
            IF r.err # NoErr
            THEN Rest(r.err, AssignFromAll(current, assignments, i + 1, env, provider,
                                           log \o r.log))
            ELSE IF current.t # "map"
            THEN [v |-> current, err |-> Err("builtins.TypeError", 0),
                  log |-> log \o r.log]
            ELSE AssignFromAll(VMap(DictSet(current.m, assignments[i].key, r.v)),
                               assignments, i + 1, env, provider, log \o r.log)
    IN  IF i > Len(assignments) THEN [v |-> current, err |-> NoErr, log |-> log]
        ELSE Write(EvaluateValue(assignments[i].value, env, provider))

\* the assignment loop of _process_section on the dict reached (current):
\* each value is resolved, then written; writing into a value that is not a
\* dict raises a builtin TypeError
RECURSIVE AssignFrom(_, _, _, _, _, _)
AssignFrom(current, assignments, i, env, provider, log) ==
    LET Write(r) ==
            IF r.err # NoErr
            THEN [v |-> current, err |-> r.err, log |-> log \o r.log]
            ELSE IF current.t # "map"
            THEN [v |-> current, err |-> Err("builtins.TypeError", 0),
                  log |-> log \o r.log]
            ELSE AssignFrom(VMap(DictSet(current.m, assignments[i].key, r.v)),
                            assignments, i + 1, env, provider, log \o r.log)
    IN  IF i > Len(assignments) THEN [v |-> current, err |-> NoErr, log |-> log]
        ELSE Write(EvaluateValue(assignments[i].value, env, provider))

\* a variant of SectionInto that makes a new dict for every part of the
\* path, whether or not the part is there
RECURSIVE SectionIntoFresh(_, _, _, _, _, _)
SectionIntoFresh(current, parts, i, section, env, provider) ==
    LET Stored(r) == [v |-> VMap(DictSet(current.m, parts[i], r.v)),
                      err |-> r.err, log |-> r.log]
    IN  IF i > Len(parts)
        THEN AssignFrom(current, section.assignments, 1, env, provider, <<>>)
        ELSE Stored(SectionIntoFresh(VMap(<<>>), parts, i + 1, section, env, provider))

\* the path loop of _process_section from the i-th part on, then the
\* assignments: a missing part is created as an empty dict; `part not in
\* current` or current[part] on a value that is not a dict raises a builtin
\* TypeError
RECURSIVE SectionInto(_, _, _, _, _, _)
SectionInto(current, parts, i, section, env, provider) ==
    LET Stored(r) == [v |-> VMap(DictSet(current.m, parts[i], r.v)),
                      err |-> r.err, log |-> r.log]
    IN  IF i > Len(parts)
        THEN AssignFrom(current, section.assignments, 1, env, provider, <<>>)
        ELSE IF current.t # "map"
        THEN [v |-> current, err |-> Err("builtins.TypeError", 0), log |-> <<>>]
        ELSE Stored(SectionInto(IF DictHas(current.m, parts[i])
                                THEN DictGet(current.m, parts[i]) ELSE VMap(<<>>),
                                parts, i + 1, section, env, provider))

\* Evaluator._process_section(section, data): [v (the dict data), err, log]
ProcessSection(section, data, env, provider) ==
    SectionInto(VMap(data),
                IF section.name # <<>> THEN Split(section.name, ".") ELSE <<>>,
                1, section, env, provider)

\* the end of the longest run of characters from pos on that satisfy a test
RECURSIVE WordEnd(_, _)
WordEnd(s, pos) == IF pos <= Len(s) /\ IsWord(s[pos]) THEN WordEnd(s, pos + 1) ELSE pos
\* the regular expression class \s, over the characters of the model
IsReSpace(c) == IsSpace(c)
RECURSIVE ReSpaceEnd(_, _)
ReSpaceEnd(s, pos) ==
    IF pos <= Len(s) /\ IsReSpace(s[pos]) THEN ReSpaceEnd(s, pos + 1) ELSE pos
RECURSIVE NonQuoteEnd(_, _)
NonQuoteEnd(s, pos) ==
    IF pos <= Len(s) /\ s[pos] \notin {"\"", "'"} THEN NonQuoteEnd(s, pos + 1) ELSE pos

EnvRefPrefix == <<"$","e","n","v",".">>

\* re.match(r'\$env\.(\w+)\s*(==|!=)\s*["\']?([^"\']*)["\']?', c): a match
\* of a prefix of c; every quantifier is greedy and none needs to give back
ConditionCompare(c) ==
    LET w == WordEnd(c, 6)
        o == ReSpaceEnd(c, w)
        op == Slice(c, o, o + 1)
        q == ReSpaceEnd(c, o + 2)
        v == IF q <= Len(c) /\ c[q] \in {"\"", "'"} THEN q + 1 ELSE q
        z == NonQuoteEnd(c, v)
    IN  IF /\ StartsWithAt(c, 1, EnvRefPrefix) /\ w > 6
           /\ op \in {<<"=","=">>, <<"!","=">>}
        THEN [ok |-> TRUE, var_name |-> Slice(c, 6, w - 1), operator |-> op,
              expected |-> Slice(c, v, z - 1)]
        ELSE [ok |-> FALSE, var_name |-> <<>>, operator |-> <<>>, expected |-> <<>>]

\* re.match(r'\$env\.(\w+)$', c): the whole of c, or all but a last newline
ConditionTruthy(c) ==
    LET w == WordEnd(c, 6)
    IN  IF /\ StartsWithAt(c, 1, EnvRefPrefix) /\ w > 6
           /\ (w = Len(c) + 1 \/ (w = Len(c) /\ c[w] = "\n"))
        THEN [ok |-> TRUE, var_name |-> Slice(c, 6, w - 1)]
        ELSE [ok |-> FALSE, var_name |-> <<>>]

\* Evaluator._evaluate_condition(condition): [b, log]
EvaluateCondition(condition, env) ==
    LET c == Strip(condition)
        m1 == ConditionCompare(c)
        m2 == ConditionTruthy(c)
        actual == IF m1.var_name \in DOMAIN env THEN env[m1.var_name] ELSE <<>>
    IN  IF m1.ok
        THEN [b |-> IF m1.operator = <<"=","=">> THEN actual = m1.expected
                    ELSE actual # m1.expected,
              log |-> << <<"env", m1.var_name>> >>]
        ELSE IF m2.ok
        THEN [b |-> m2.var_name \in DOMAIN env /\ env[m2.var_name] # <<>>,
              log |-> << <<"env", m2.var_name>> >>]
        ELSE [b |-> FALSE, log |-> <<>>]

\* for section in sections: self._process_section(section, data), from the
\* i-th section on; the first error ends the loop
RECURSIVE ApplySections(_, _, _, _, _, _)
ApplySections(data, sections, i, env, provider, log) ==
    LET Applied(r) ==
            IF r.err # NoErr THEN [v |-> r.v, err |-> r.err, log |-> log \o r.log]
            ELSE ApplySections(r.v.m, sections, i + 1, env, provider, log \o r.log)
    IN  IF i > Len(sections) THEN [v |-> VMap(data), err |-> NoErr, log |-> log]
        ELSE Applied(ProcessSection(sections[i], data, env, provider))

\* a variant of ApplyConditionals that applies the sections of a conditional
\* whatever its condition evaluates to
RECURSIVE ApplyConditionalsAlways(_, _, _, _, _, _)
ApplyConditionalsAlways(data, conditionals, i, env, provider, log) ==
    LET Applied(r) ==
            IF r.err # NoErr THEN r
            ELSE ApplyConditionalsAlways(r.v.m, conditionals, i + 1, env, provider,
                                         r.log)
        Tested(c) ==
            Applied(ApplySections(data, conditionals[i].sections, 1, env, provider,
                                  log \o c.log))
    IN  IF i > Len(conditionals) THEN [v |-> VMap(data), err |-> NoErr, log |-> log]
        ELSE Tested(EvaluateCondition(conditionals[i].condition, env))

\* for conditional in ast.conditionals: the sections of each conditional
\* whose condition holds, from the i-th conditional on
RECURSIVE ApplyConditionals(_, _, _, _, _, _)
ApplyConditionals(data, conditionals, i, env, provider, log) ==
    LET Applied(r) ==
            IF r.err # NoErr THEN r
            ELSE ApplyConditionals(r.v.m, conditionals, i + 1, env, provider, r.log)
        Tested(c) ==
            IF c.b
            THEN Applied(ApplySections(data, conditionals[i].sections, 1, env,
                                       provider, log \o c.log))
            ELSE Applied([v |-> VMap(data), err |-> NoErr, log |-> log \o c.log])
    IN  IF i > Len(conditionals) THEN [v |-> VMap(data), err |-> NoErr, log |-> log]
        ELSE Tested(EvaluateCondition(conditionals[i].condition, env))

\* Evaluator.evaluate(ast) after its include loop: the sections, then the
\* conditionals, on the tree data the includes left
EvaluateLocal(ast, data, env, provider) ==
    LET Sectioned(r) ==
            IF r.err # NoErr THEN r
            ELSE ApplyConditionals(r.v.m, ast.conditionals, 1, env, provider, r.log)
    IN  Sectioned(ApplySections(data, ast.sections, 1, env, provider, <<>>))

---------------------------------------------------------------------------
(* load and loads (src/lib/ppc/__init__.py): the provider they hand to the *)
(* Evaluator.  The keyword arguments are optional: secret_provider is the  *)
(* table of a caller's function, secrets_file is [exists, table], secrets  *)
(* is a dict.                                                              *)

LoadProvider(opts) ==
    LET Created(c) == [p |-> Some(c.p), err |-> c.err]
    IN  IF opts.secret_provider # None
        THEN [p |-> Some(CustomProvider(opts.secret_provider[1])), err |-> NoErr]
        ELSE IF opts.secrets_file # None
                \/ (opts.secrets # None /\ DOMAIN opts.secrets[1] # {})
        THEN Created(CreateSecretProvider(TRUE, opts.secrets_file, opts.secrets))
        ELSE [p |-> None, err |-> NoErr]

LoadsProvider(opts) ==
    IF opts.secret_provider # None
    THEN [p |-> Some(CustomProvider(opts.secret_provider[1])), err |-> NoErr]
    ELSE IF opts.secrets # None /\ DOMAIN opts.secrets[1] # {}
    THEN [p |-> Some(DictProvider(opts.secrets[1])), err |-> NoErr]
    ELSE [p |-> None, err |-> NoErr]

\* load(path, ...) and loads(text, ...) of a document without includes,
\* given by its AST: [v, err, log]
WithProvider(ast, p, env) ==
    IF p.err # NoErr THEN [v |-> VNull, err |-> p.err, log |-> <<>>]
    ELSE EvaluateLocal(ast, <<>>, env, p.p)
LoadLocal(ast, opts, env) == WithProvider(ast, LoadProvider(opts), env)
LoadsLocal(ast, opts, env) == WithProvider(ast, LoadsProvider(opts), env)

\* loads(text) with no keyword argument, in a directory without files: the
\* first include of the text, when it has one, is of a file that is not
\* found.  [v, err, hang, log]; hang when tokenize does not end, v the tree
\* returned (nothing is returned when an error is raised), log the lookups
\* made
LoadsParsed(r, env) ==
    LET Evaluated(e) == [v |-> IF e.err = NoErr THEN e.v ELSE VNull, err |-> e.err,
                         hang |-> FALSE, log |-> e.log]
    IN  IF r.hang \/ r.err # NoErr
        THEN [v |-> VNull, err |-> r.err, hang |-> r.hang, log |-> <<>>]
        ELSE IF r.ast.includes # <<>>
        THEN [v |-> VNull, err |-> Err("IncludeError", r.ast.includes[1].line),
              hang |-> FALSE, log |-> <<>>]
        ELSE Evaluated(EvaluateLocal(r.ast, <<>>, env, None))
\* the same with the AST that parse returned
LoadsTraced(r, env) == [ast |-> r.ast, out |-> LoadsParsed(r, env)]
LoadsText(text, env) == LoadsParsed(Parse(text), env)

---------------------------------------------------------------------------
(* dumps (src/lib/ppc/__init__.py)                                         *)

\* value.replace("\\", "\\\\").replace('"', '\\"')
RECURSIVE Escaped(_)
Escaped(s) ==
    IF s = <<>> THEN <<>>
    ELSE (IF s[1] \in {"\\", "\""} THEN <<"\\", s[1]>> ELSE <<s[1]>>) \o Escaped(Tail(s))

RECURSIVE FormatValue(_)
RECURSIVE FormatItems(_, _)
\* ", ".join(items) of the formatted items of a list
FormatItems(l, i) ==
    IF i > Len(l) THEN <<>>
    ELSE (IF i > 1 THEN <<",", " ">> ELSE <<>>) \o FormatValue(l[i])
         \o FormatItems(l, i + 1)
\* _format_value(value)
FormatValue(value) ==
    CASE value.t = "null" -> <<"n","u","l","l">>
      [] value.t = "bool" ->
             IF value.b THEN <<"t","r","u","e">> ELSE <<"f","a","l","s","e">>
      [] value.t = "str" -> <<"\"">> \o Escaped(value.s) \o <<"\"">>
      [] value.t = "int" -> PyStrOfInt(value.i)
      [] value.t = "float" -> PyStrOfFloat(value)
      [] value.t = "list" -> <<"[">> \o FormatItems(value.l, 1) \o <<"]">>
      [] OTHER -> PyStr(value)

IsSimple(item) == item[2].t # "map"
IsNested(item) == item[2].t = "map"
\* the lines "  key = formatted" of the simple items
RECURSIVE SimpleLines(_, _)
SimpleLines(items, i) ==
    IF i > Len(items) THEN <<>>
    ELSE <<(<<" ", " ">> \o items[i][1] \o <<" ", "=", " ">> \o FormatValue(items[i][2]))>>
         \o SimpleLines(items, i + 1)
\* _dump_section(data, lines, prefix): the lines it appends
RECURSIVE DumpSection(_, _)
RECURSIVE DumpNested(_, _, _)
DumpNested(items, i, prefix) ==
    IF i > Len(items) THEN <<>>
    ELSE DumpSection(items[i][2].m,
                     IF prefix # <<>> THEN prefix \o <<".">> \o items[i][1]
                     ELSE items[i][1])
         \o DumpNested(items, i + 1, prefix)
DumpSection(data, prefix) ==
    LET Simple(simple_items) ==
            IF simple_items # <<>>
            THEN (IF prefix # <<>> THEN << <<">", ">", " ">> \o prefix >> ELSE <<>>)
                 \o SimpleLines(simple_items, 1) \o << <<>> >>
            ELSE <<>>
    IN  Simple(SelectSeq(data, IsSimple))
        \o DumpNested(SelectSeq(data, IsNested), 1, prefix)
\* "\n".join(lines)
RECURSIVE JoinLines(_, _)
JoinLines(lines, i) ==
    IF i > Len(lines) THEN <<>>
    ELSE (IF i > 1 THEN <<"\n">> ELSE <<>>) \o lines[i] \o JoinLines(lines, i + 1)
\* dumps(config) for a dict
Dumps(data) == JoinLines(DumpSection(data, <<>>), 1)

---------------------------------------------------------------------------
(* Config.merge on a heap of dict objects (src/lib/ppc/config.py)          *)

\* the dict object a reference cell points to
Deref(h, cell) == h[cell.i]

\* Mutant of ConfigDeepMergeFrom: two lists are concatenated instead of the
\* override's list replacing the base's
RECURSIVE ConfigDeepMergeExtend(_, _, _, _, _)
ConfigDeepMergeExtend(h, base, override, i, n0) ==
    IF Len(h[override]) # n0 THEN [h |-> h, err |-> "RuntimeError"]
    ELSE IF i > Len(h[override]) THEN [h |-> h, err |-> ""]
    ELSE LET key == h[override][i][1]
             value == h[override][i][2]
         IN  IF /\ DictHas(h[base], key)
                /\ IsDict(DictGet(h[base], key))
                /\ IsDict(value)
             THEN LET sub == ConfigDeepMergeExtend(h, DictGet(h[base], key).i,
                                  value.i, 1, Len(h[value.i]))
                  IN  IF sub.err # "" THEN sub
                      ELSE ConfigDeepMergeExtend(sub.h, base, override, i + 1, n0)
             ELSE IF /\ DictHas(h[base], key)
                     /\ DictGet(h[base], key).t = "list"
                     /\ value.t = "list"
             THEN ConfigDeepMergeExtend(
                      [h EXCEPT ![base] = DictSet(h[base], key,
                           VList(DictGet(h[base], key).l \o value.l))],
                      base, override, i + 1, n0)
             ELSE ConfigDeepMergeExtend(
                      [h EXCEPT ![base] = DictSet(h[base], key, value)],
                      base, override, i + 1, n0)

\* Mutant of ConfigDeepMergeFrom: a shallow update, nested dicts are replaced
\* instead of merged
RECURSIVE ConfigDeepMergeShallow(_, _, _, _, _)
ConfigDeepMergeShallow(h, base, override, i, n0) ==
    IF Len(h[override]) # n0 THEN [h |-> h, err |-> "RuntimeError"]
    ELSE IF i > Len(h[override]) THEN [h |-> h, err |-> ""]
    ELSE ConfigDeepMergeShallow(
             [h EXCEPT ![base] = DictSet(h[base], h[override][i][1],
                                         h[override][i][2])],
             base, override, i + 1, n0)

\* for key, value in override.items(): ... , from the i-th item on.  The
\* override dict is read live: Python raises RuntimeError when its size
\* changed since the iteration began (n0).
RECURSIVE ConfigDeepMergeFrom(_, _, _, _, _)
ConfigDeepMergeFrom(h, base, override, i, n0) ==
    IF Len(h[override]) # n0 THEN [h |-> h, err |-> "RuntimeError"]
    ELSE IF i > Len(h[override]) THEN [h |-> h, err |-> ""]
    ELSE LET key == h[override][i][1]
             value == h[override][i][2]
         IN  IF /\ DictHas(h[base], key)
                /\ IsDict(DictGet(h[base], key))
                /\ IsDict(value)
             THEN LET sub == ConfigDeepMergeFrom(h, DictGet(h[base], key).i,
                                  value.i, 1, Len(h[value.i]))
                  IN  IF sub.err # "" THEN sub
                      ELSE ConfigDeepMergeFrom(sub.h, base, override, i + 1, n0)
             ELSE ConfigDeepMergeFrom(
                      [h EXCEPT ![base] = DictSet(h[base], key, value)],
                      base, override, i + 1, n0)

\* Config._deep_merge(base, override)
ConfigDeepMerge(h, base, override) ==
    ConfigDeepMergeFrom(h, base, override, 1, Len(h[override]))


\* Config.merge(other): other._data when other is a Config; the call returns
\* self, or the error of _deep_merge propagates
ConfigMerge(h, self, other) == ConfigDeepMerge(h, self, other)

\* a dict literal built in memory: every nested dict is an object of its own
RECURSIVE AllocDict(_, _)
RECURSIVE AllocItems(_, _, _, _)
AllocItems(h, m, i, acc) ==
    IF i > Len(m) THEN [h |-> h, cells |-> acc]
    ELSE IF m[i][2].t = "map"
         THEN LET sub == AllocDict(h, m[i][2].m)
              IN  AllocItems(sub.h, m, i + 1, Append(acc, <<m[i][1], VRef(sub.a)>>))
         ELSE AllocItems(h, m, i + 1, Append(acc, m[i]))
AllocDict(h, m) ==
    LET a == Len(h) + 1
        r == AllocItems(Append(h, <<>>), m, 1, <<>>)
    IN  [h |-> [r.h EXCEPT ![a] = r.cells], a |-> a]

\* the tree a dict object holds, read by value (Config.to_dict, deeply)
RECURSIVE HeapVal(_, _)
HeapVal(h, a) ==
    VMap([n \in DOMAIN h[a] |->
            <<h[a][n][1],
              IF h[a][n][2].t = "ref" THEN HeapVal(h, h[a][n][2].i)
              ELSE h[a][n][2]>>])

---------------------------------------------------------------------------
(* Evaluator._deep_merge (src/lib/ppc/evaluator.py).  The trees the        *)
(* evaluator merges are built by one evaluate call each and are shared     *)
(* with nothing else, so they are held by value here.                      *)

RECURSIVE EvalDeepMergeFrom(_, _, _)
EvalDeepMergeFrom(base, override, i) ==
    IF i > Len(override) THEN base
    ELSE LET key == override[i][1]
             value == override[i][2]
         IN  IF /\ DictHas(base, key)
                /\ IsDict(DictGet(base, key))
                /\ IsDict(value)
             THEN EvalDeepMergeFrom(
                      DictSet(base, key,
                          VMap(EvalDeepMergeFrom(DictGet(base, key).m, value.m, 1))),
                      override, i + 1)
             ELSE EvalDeepMergeFrom(DictSet(base, key, value), override, i + 1)

\* Evaluator._deep_merge(base, override) on dicts held by value
EvalDeepMerge(base, override) == EvalDeepMergeFrom(base, override, 1)

---------------------------------------------------------------------------
(* SpecMerge: two Config objects X and Y, merged into one another          *)

MaxTreeDepth == 2
MaxMergeOps == 2

KeyA == <<"a">>
KeyB == <<"b">>

MergeLeaves == {VInt(1), VList(<<VInt(2)>>)}

\* the dicts of nesting depth at most d over the keys a and b
RECURSIVE MergeTreesOfDepth(_)
MergeTreesOfDepth(d) ==
    IF d = 0 THEN {}
    ELSE LET vals == MergeLeaves \cup {VMap(m) : m \in MergeTreesOfDepth(d - 1)}
         IN  {<<>>} \cup {<< <<KeyA, v>> >> : v \in vals}
                    \cup {<< <<KeyA, v>>, <<KeyB, VInt(1)>> >> : v \in vals}

ConfigNames == {"X", "Y"}
\* no load or loads call, in an empty environment
NoCall == [api |-> "", opts |-> <<>>, node |-> <<>>, res |-> <<>>]
ValueIdle ==
    /\ environ = <<>>
    /\ call = NoCall

\* no load under way
NotDone == [done |-> FALSE, v |-> VNull, err |-> NoErr, by |-> "", log |-> <<>>]
EvalIdle ==
    /\ fs = <<>>
    /\ stack = <<>>
    /\ included = {}
    /\ outcome = NotDone

\* no tokenize call under way
LexIdle ==
    /\ lexer = [Lexer(<<>>) EXCEPT !.ctl = <<>>, !.done = TRUE]
    /\ iters = 0

\* no dumps call made
NoTrip == [made |-> FALSE, data |-> <<>>, text |-> <<>>, res |-> <<>>]
TripIdle == trip = NoTrip

\* no function applied
NoApp == [fn |-> "", arg |-> <<>>, res |-> <<>>]
\* no evaluate call ended, no provider object made
RestIdle ==
    /\ app = NoApp
    /\ past = <<>>
    /\ chain = <<>>

NoMerge == [base |-> "", override |-> "", pre |-> <<>>, err |-> ""]

MergeIdle ==
    /\ heap = <<>>
    /\ configs = <<>>
    /\ lastMerge = NoMerge
    /\ mergeOps = 0

MergeInit ==
    \E tx \in MergeTreesOfDepth(MaxTreeDepth), ty \in MergeTreesOfDepth(MaxTreeDepth) :
        LET ax == AllocDict(<<>>, tx)
            ay == AllocDict(ax.h, ty)
        IN  /\ heap = ay.h
            /\ configs = [c \in ConfigNames |-> IF c = "X" THEN ax.a ELSE ay.a]
            /\ lastMerge = NoMerge
            /\ mergeOps = 0

\* self.merge(other) for two Config objects (possibly the same one)
Merge(self, other) ==
    /\ mergeOps < MaxMergeOps
    /\ lastMerge.err = ""
    /\ LET r == ConfigMerge(heap, configs[self], configs[other])
       IN  /\ heap' = r.h
           /\ lastMerge' = [base |-> self, override |-> other, pre |-> heap,
                            err |-> r.err]
    /\ mergeOps' = mergeOps + 1
    /\ UNCHANGED <<configs, mergeOthers>>

MergeNext == \E self \in ConfigNames, other \in ConfigNames : Merge(self, other)

InitM == MergeInit /\ ValueIdle /\ EvalIdle /\ LexIdle /\ TripIdle /\ RestIdle
NextM == MergeNext
SpecMerge == InitM /\ [][NextM]_vars

\* the last merge call: its two dicts, and the trees before and after it
MergeDone == lastMerge.base # ""
MergeBaseAddr == configs[lastMerge.base]
MergeOverrideAddr == configs[lastMerge.override]
MergeBaseBefore == HeapVal(lastMerge.pre, MergeBaseAddr)
MergeOverrideBefore == HeapVal(lastMerge.pre, MergeOverrideAddr)
MergeBaseAfter == HeapVal(heap, MergeBaseAddr)

\* C6: merging the empty tree into T leaves T unchanged; merging T into
\* itself (the same Config object as base and override) raises nothing and
\* leaves T unchanged.
C6_MergeIdentities ==
    MergeDone =>
        /\ (MergeOverrideBefore.m = <<>> =>
                /\ lastMerge.err = ""
                /\ TreeEq(MergeBaseAfter, MergeBaseBefore))
        /\ (lastMerge.base = lastMerge.override =>
                /\ lastMerge.err = ""
                /\ TreeEq(MergeBaseAfter, MergeBaseBefore))

\* a Config holding a nested dict and a list has been merged into itself
C6_Witness ==
    /\ MergeDone
    /\ lastMerge.base = lastMerge.override
    /\ \E n \in DOMAIN MergeBaseAfter.m :
          /\ MergeBaseAfter.m[n][2].t = "map"
          /\ \E k \in DOMAIN MergeBaseAfter.m[n][2].m :
                MergeBaseAfter.m[n][2].m[k][2].t = "list"

\* the deep-merge rule as a relation between base, override and result
RECURSIVE MergeRule(_, _, _)
MergeRule(b, o, r) ==
    /\ DictKeys(r) = DictKeys(b) \cup DictKeys(o)
    /\ \A k \in DictKeys(o) :
          IF DictHas(b, k) /\ DictGet(b, k).t = "map" /\ DictGet(o, k).t = "map"
          THEN /\ DictGet(r, k).t = "map"
               /\ MergeRule(DictGet(b, k).m, DictGet(o, k).m, DictGet(r, k).m)
          ELSE TreeEq(DictGet(r, k), DictGet(o, k))
    /\ \A k \in DictKeys(b) \ DictKeys(o) : TreeEq(DictGet(r, k), DictGet(b, k))

\* C7: after merge, the result at each key of override is the recursive merge
\* when both sides hold a map and otherwise exactly the override's value, the
\* keys of base absent from override keep their values, merge never raises,
\* and Evaluator._deep_merge computes the same tree as Config._deep_merge.
C7_DeepMergeRule ==
    MergeDone =>
        /\ lastMerge.err = ""
        /\ MergeRule(MergeBaseBefore.m, MergeOverrideBefore.m, MergeBaseAfter.m)
        /\ TreeEq(MergeBaseAfter,
                  VMap(EvalDeepMerge(MergeBaseBefore.m, MergeOverrideBefore.m)))

\* a merge of two distinct Configs that met a map on both sides at key a,
\* replaced a scalar by a list inside it, and kept a key of base at both levels
C7_Witness ==
    /\ MergeDone
    /\ lastMerge.base # lastMerge.override
    /\ DictHas(MergeBaseBefore.m, KeyA) /\ DictHas(MergeOverrideBefore.m, KeyA)
    /\ DictGet(MergeBaseBefore.m, KeyA).t = "map"
    /\ DictGet(MergeOverrideBefore.m, KeyA).t = "map"
    /\ DictHas(DictGet(MergeBaseBefore.m, KeyA).m, KeyA)
    /\ DictHas(DictGet(MergeOverrideBefore.m, KeyA).m, KeyA)
    /\ DictGet(DictGet(MergeBaseBefore.m, KeyA).m, KeyA).t = "int"
    /\ DictGet(DictGet(MergeOverrideBefore.m, KeyA).m, KeyA).t = "list"
    /\ DictHas(DictGet(MergeBaseBefore.m, KeyA).m, KeyB)
    /\ ~DictHas(DictGet(MergeOverrideBefore.m, KeyA).m, KeyB)
    /\ DictHas(MergeBaseBefore.m, KeyB) /\ ~DictHas(MergeOverrideBefore.m, KeyB)


---------------------------------------------------------------------------
(* SpecValue: one load or loads call of the document  k = <value>  in an   *)
(* environment, with the keyword arguments of the call.                    *)

MaxDefaultDepth == 2

EnvNameA == <<"A">>
EnvNameB == <<"B">>
SecretKeyK == <<"K">>
SecretKeyJ == <<"J">>
DocKey == <<"k">>
HintInt == <<"i","n","t">>

\* an environment from its optional settings (None: not set)
EnvOf(settings) ==
    [n \in {settings[i][1] : i \in {j \in DOMAIN settings : settings[j][2] # None}} |->
        (CHOOSE i \in DOMAIN settings : settings[i][1] = n /\ settings[i][2] # None)
    ]
EnvFrom(settings) ==
    LET pick == EnvOf(settings) IN [n \in DOMAIN pick |-> settings[pick[n]][2][1]]
ValueEnvs ==
    {EnvFrom(<< <<EnvNameA, a>>, <<EnvNameB, b>>,
                <<SecretPrefix \o SecretKeyK, s>>, <<PepePrefix \o SecretKeyK, p>> >>) :
        a \in {None, Some(<<>>), Some(<<"9","0">>)}, b \in {None, Some(<<"7">>)},
        s \in {None, Some(<<>>), Some(<<"e">>)}, p \in {None, Some(<<"p">>)}}

ValueLiterals == {VInt(8080), VNull}
RECURSIVE ValueNodes(_)
ValueNodes(d) ==
    LET leaves == {ValueNode(v, 1) : v \in ValueLiterals}
                  \cup {EnvNode(n, None, 1) : n \in {EnvNameA, EnvNameB}}
                  \cup {SecretNode(SecretKeyK, None, 1)}
    IN  IF d = 0 THEN leaves
        ELSE leaves
             \cup {EnvNode(n, Some(f), 1) :
                     n \in {EnvNameA, EnvNameB}, f \in ValueNodes(d - 1)}
             \cup {SecretNode(SecretKeyK, Some(f), 1) : f \in ValueNodes(d - 1)}
\* the value of the assignment, with or without  :: int
TopNodes(d) == ValueNodes(d) \cup {WithHint(n, HintInt) : n \in ValueNodes(d)}

SecretTables ==
    {[x \in {SecretKeyK} |-> <<"m">>], [x \in {SecretKeyJ} |-> <<"m">>]}
ProviderTables == {[x \in {SecretKeyK} |-> <<"c">>], <<>>}
SecretFiles ==
    {[exists |-> TRUE, table |-> [x \in {SecretKeyK} |-> <<"f">>]],
     [exists |-> TRUE, table |-> <<>>],
     [exists |-> FALSE, table |-> <<>>]}
OptionalOf(S) == {None} \cup {Some(x) : x \in S}
\* loads has no secrets_file parameter
LoadsOpts ==
    [secret_provider : OptionalOf(ProviderTables), secrets_file : {None},
     secrets : OptionalOf(SecretTables)]
LoadOpts ==
    [secret_provider : OptionalOf(ProviderTables),
     secrets_file : OptionalOf(SecretFiles), secrets : OptionalOf(SecretTables)]

\* the document  k = node  (k :: int = node when the node has the hint)
ValueDoc(node) ==
    AST(<<SectionNode(<<>>, <<AssignmentNode(DocKey, node, 1)>>, 1)>>, <<>>, <<>>)

ValueInit ==
    /\ environ \in ValueEnvs
    /\ call = NoCall

Loads(opts, node) ==
    /\ call = NoCall
    /\ call' = [api |-> "loads", opts |-> opts, node |-> node,
                res |-> LoadsLocal(ValueDoc(node), opts, environ)]
    /\ UNCHANGED <<environ, valueOthers>>

Load(opts, node) ==
    /\ call = NoCall
    /\ call' = [api |-> "load", opts |-> opts, node |-> node,
                res |-> LoadLocal(ValueDoc(node), opts, environ)]
    /\ UNCHANGED <<environ, valueOthers>>

InitV == ValueInit /\ MergeIdle /\ EvalIdle /\ LexIdle /\ TripIdle /\ RestIdle
NextV ==
    \/ \E opts \in LoadsOpts, node \in TopNodes(MaxDefaultDepth) : Loads(opts, node)
    \/ \E opts \in LoadOpts, node \in {n \in ValueNodes(1) : Truthy(n.secret)} :
           Load(opts, node)
SpecValue == InitV /\ [][NextV]_vars

\* the call made, the provider its evaluator had, and the value of k
CallDone == call.api # ""
CallProvider ==
    IF call.api = "load" THEN LoadProvider(call.opts).p ELSE LoadsProvider(call.opts).p
CallOk == CallDone /\ call.res.err = NoErr
CallValue == DictGet(call.res.v.m, DocKey)


\* the value the resolution rules give a node: a set variable's text, a
\* secret's text from the provider when one is configured and from SECRET_<K>
\* of the environment when none is, else the fallback by the same rules, else
\* null; a literal is its value
RECURSIVE RuleValue(_, _, _)
RuleValue(node, env, provider) ==
    LET Absent == IF node.default # None
                  THEN RuleValue(node.default[1], env, provider) ELSE VNull
        Secret(found) == IF found # None THEN VStr(found[1]) ELSE Absent
    IN  IF Truthy(node.env_var)
        THEN IF node.env_var[1] \in DOMAIN env THEN VStr(env[node.env_var[1]])
             ELSE Absent
        ELSE IF Truthy(node.secret)
        THEN IF provider # None
             THEN Secret(ProviderGet(provider[1], env, node.secret[1]).v)
             ELSE Secret(TableGet(env, SecretPrefix \o node.secret[1]))
        ELSE node.value

\* the call's outcome is the rule's value, converted to int under  :: int
\* when it is not null; a failed conversion is an EvaluationError
CallFollowsRule ==
    LET Outcome(rv) ==
            IF Truthy(call.node.type_hint) /\ rv.t # "null"
            THEN IF rv.t = "str" /\ ~PyIntOfStr(rv.s).ok
                 THEN call.res.err.kind = "EvaluationError"
                 ELSE /\ CallOk
                      /\ CallValue = IF rv.t = "str" THEN VInt(PyIntOfStr(rv.s).v) ELSE rv
            ELSE CallOk /\ CallValue = rv
    IN  Outcome(RuleValue(call.node, environ, CallProvider))

Events(log) == {log[i] : i \in DOMAIN log}

C9_SecretReference ==
    (CallDone /\ call.res.err.kind # "SecretError" /\ Truthy(call.node.secret))
        => /\ CallFollowsRule
           /\ (CallProvider # None
                  => <<"env", SecretPrefix \o call.node.secret[1]>>
                         \notin Events(call.res.log))

\* $secret.K ?? 8080 with a provider that has no K while SECRET_K = "e":
\* the value is 8080
C9_Witness ==
    /\ CallOk
    /\ call.opts.secret_provider = Some(<<>>)
    /\ call.node = SecretNode(SecretKeyK, Some(ValueNode(VInt(8080), 1)), 1)
    /\ TableGet(environ, SecretPrefix \o SecretKeyK) = Some(<<"e">>)
    /\ CallValue = VInt(8080)

\* the secret the priority order map, file, environment gives for key
ChainedSecret(opts, env, key) ==
    IF key \in DOMAIN opts.secrets[1] THEN Some(opts.secrets[1][key])
    ELSE IF opts.secrets_file # None /\ key \in DOMAIN opts.secrets_file[1].table
    THEN Some(opts.secrets_file[1].table[key])
    ELSE EnvSecretGet(env, key).v

\* C10: for load and for loads, with an explicit secrets map (and no
\* provider argument), $secret.K is the map's value when K is a key of the
\* map, else the secrets file's value when a file was given and holds K, else
\* the environment's secret value for K.
C10_SecretsPriority ==
    (/\ CallDone
     /\ call.opts.secret_provider = None
     /\ call.opts.secrets # None
     /\ (call.opts.secrets_file # None => call.opts.secrets_file[1].exists)
     /\ call.node = SecretNode(SecretKeyK, None, 1))
        => /\ CallOk
           /\ CallValue = OptValue(ChainedSecret(call.opts, environ, SecretKeyK))

\* the statement of C10 for load alone
LoadSecretsPriority == call.api = "load" => C10_SecretsPriority


---------------------------------------------------------------------------
(* Includes (Evaluator._process_include and Evaluator.evaluate as nested   *)
(* calls).  A path is [abs, parts], parts its components; a directory and  *)
(* a canonical path are sequences of components from the root directory.   *)
(* A frame is one Evaluator.evaluate call: the evaluator's base_path, the  *)
(* AST, the dict data, the phase it is in, the index of its next include   *)
(* and the phases it has been through.                                     *)

RelPath(parts) == [abs |-> FALSE, parts |-> parts]
AbsPath(parts) == [abs |-> TRUE, parts |-> parts]

\* a variant of JoinPath that takes every relative path from the directory
\* of the root document
JoinPathRoot(base, path) == path.parts

\* self.base_path / path, or Path(path) when path is absolute
JoinPath(base, path) == IF path.abs THEN path.parts ELSE base \o path.parts

\* Path.resolve(): "." dropped, ".." steps to the parent (the root is its
\* own parent)
RECURSIVE ResolveFrom(_, _, _)
ResolveFrom(parts, i, acc) ==
    IF i > Len(parts) THEN acc
    ELSE IF parts[i] = "." THEN ResolveFrom(parts, i + 1, acc)
    ELSE IF parts[i] = ".."
    THEN ResolveFrom(parts, i + 1,
                     IF acc = <<>> THEN acc ELSE SubSeq(acc, 1, Len(acc) - 1))
    ELSE ResolveFrom(parts, i + 1, Append(acc, parts[i]))
Resolve(parts) == ResolveFrom(parts, 1, <<>>)

\* Path.parent of a path with a last component
ParentDir(parts) == SubSeq(parts, 1, Len(parts) - 1)

\* a variant of PhaseAfter that runs the conditionals before the sections
PhaseAfterConditionalsFirst(phase) ==
    CASE phase = "includes" -> "conditionals"
      [] phase = "conditionals" -> "sections"
      [] OTHER -> "return"

\* the order of the loops of Evaluator.evaluate
PhaseAfter(phase) ==
    CASE phase = "includes" -> "sections"
      [] phase = "sections" -> "conditionals"
      [] OTHER -> "return"

\* the phase of a frame whose next include is the idx-th
PhaseAt(ast, idx) ==
    IF idx <= Len(ast.includes) THEN "includes" ELSE PhaseAfter("includes")

\* evaluate(ast) entered with the given base_path
NewFrame(base, ast) ==
    [base |-> base, ast |-> ast, data |-> <<>>, phase |-> PhaseAt(ast, 1),
     idx |-> 1, log |-> <<>>]

Top(stk) == stk[Len(stk)]
Raise(inc, err, by) ==
    [stack |-> <<>>, included |-> inc,
     outcome |-> [done |-> TRUE, v |-> VNull, err |-> err, by |-> by, log |-> <<>>]]

\* a variant of ProcessInclude that takes a file already in the chain as
\* included once: nothing is read and nothing is merged
ProcessIncludeOnce(stk, inc, files) ==
    LET Enter(top, node, full, resolved) ==
            IF resolved \in inc
            THEN [stack |-> [stk EXCEPT ![Len(stk)] =
                                [top EXCEPT !.idx = top.idx + 1,
                                            !.phase = PhaseAt(top.ast, top.idx + 1),
                                            !.log = Append(top.log, <<"include", top.idx>>)]],
                  included |-> inc, outcome |-> NotDone]
            ELSE IF resolved \notin DOMAIN files
            THEN Raise(inc \cup {resolved}, Err("IncludeError", node.line), "include")
            ELSE [stack |-> Append(stk, NewFrame(ParentDir(full), files[resolved])),
                  included |-> inc \cup {resolved}, outcome |-> NotDone]
        Joined(top, node, full) == Enter(top, node, full, Resolve(full))
        Node(top, node) == Joined(top, node, JoinPath(top.base, node.path))
        Frame(top) == Node(top, top.ast.includes[top.idx])
    IN  Frame(Top(stk))

\* a variant of ProcessInclude in which the nested evaluator starts with an
\* include chain of its own
ProcessIncludeOwnChain(stk, inc, files) ==
    LET Enter(top, node, full, resolved) ==
            IF resolved \notin DOMAIN files
            THEN Raise(inc \cup {resolved}, Err("IncludeError", node.line), "include")
            ELSE [stack |-> Append(stk, NewFrame(ParentDir(full), files[resolved])),
                  included |-> inc \cup {resolved}, outcome |-> NotDone]
        Joined(top, node, full) == Enter(top, node, full, Resolve(full))
        Node(top, node) == Joined(top, node, JoinPath(top.base, node.path))
        Frame(top) == Node(top, top.ast.includes[top.idx])
    IN  Frame(Top(stk))

\* Evaluator._process_include(path, line) up to the nested evaluate call, by
\* the evaluator on top of the stack for its next include: the stack, the
\* shared chain and the outcome after it
ProcessInclude(stk, inc, files) ==
    LET Enter(top, node, full, resolved) ==
            IF resolved \in inc
            THEN Raise(inc, Err("IncludeError", node.line), "include")
            ELSE IF resolved \notin DOMAIN files
            THEN Raise(inc \cup {resolved}, Err("IncludeError", node.line), "include")
            ELSE [stack |-> Append(stk, NewFrame(ParentDir(full), files[resolved])),
                  included |-> inc \cup {resolved}, outcome |-> NotDone]
        Joined(top, node, full) == Enter(top, node, full, Resolve(full))
        Node(top, node) == Joined(top, node, JoinPath(top.base, node.path))
        Frame(top) == Node(top, top.ast.includes[top.idx])
    IN  Frame(Top(stk))

\* one loop of Evaluator.evaluate on the top frame: the sections or the true
\* conditionals applied to its data; an error ends the load
RunPhase(stk, inc, env) ==
    LET Ran(top, r) ==
            IF r.err # NoErr THEN Raise(inc, r.err, top.phase)
            ELSE [stack |-> [stk EXCEPT ![Len(stk)] =
                                [top EXCEPT !.data = r.v.m,
                                            !.phase = PhaseAfter(top.phase),
                                            !.log = Append(top.log, <<top.phase>>)]],
                  included |-> inc, outcome |-> NotDone]
        Frame(top) ==
            IF top.phase = "sections"
            THEN Ran(top, ApplySections(top.data, top.ast.sections, 1, env, None, <<>>))
            ELSE Ran(top, ApplyConditionals(top.data, top.ast.conditionals, 1, env,
                                            None, <<>>))
    IN  Frame(Top(stk))

\* return Config(data): the top-level load ends with the tree; a nested
\* evaluate returns to _process_include, whose caller merges the dict into
\* its data and goes on to its next include
ReturnFrom(stk, inc) ==
    LET Merged(top, parent) ==
            [parent EXCEPT !.data = EvalDeepMerge(parent.data, top.data),
                           !.idx = parent.idx + 1,
                           !.phase = PhaseAt(parent.ast, parent.idx + 1),
                           !.log = Append(parent.log, <<"include", parent.idx>>)]
        Frame(top) ==
            IF Len(stk) = 1
            THEN [stack |-> <<>>, included |-> inc,
                  outcome |-> [done |-> TRUE, v |-> VMap(top.data), err |-> NoErr,
                               by |-> "", log |-> top.log]]
            ELSE [stack |-> Append(SubSeq(stk, 1, Len(stk) - 2),
                                   Merged(top, stk[Len(stk) - 1])),
                  included |-> inc, outcome |-> NotDone]
    IN  Frame(Top(stk))


---------------------------------------------------------------------------
(* SpecEval: one top-level load of the file /a among the files /a, /b and  *)
(* /d/c, each with its own includes, sections and conditionals.            *)

MaxIncludes == 2
MaxStack == 5

FileA == <<"a">>
FileB == <<"b">>
FileC == <<"d", "c">>
Files == {FileA, FileB, FileC}

KeyK == <<"k">>
KeyJ == <<"j">>
NameS == <<"s">>
CondVar == <<"E">>
CondTruthy == EnvRefPrefix \o CondVar
CondUnset == EnvRefPrefix \o CondVar \o <<" ", "!", "=", " ", "\"", "1", "\"">>

\* the assignment  key = n  on a line
Assign(key, n, line) == AssignmentNode(key, ValueNode(VInt(n), line), line)

\* the root document, its include directives on lines 5, 6, ...: either
\*     >> @when $env.E / >> / k = 2 / @include ... / >> / k = 4
\* or  >> s / k = 6 / >> s / k = 8 / @include ... / >> @when $env.E / >> s /
\*     k = 2 / >> @when $env.E != "1" / >> s / j = 4
RootBodies ==
    {[sections |-> <<SectionNode(<<>>, <<Assign(KeyK, 4, 9)>>, 8)>>,
      conditionals |->
          <<ConditionalNode(CondTruthy,
                            <<SectionNode(<<>>, <<Assign(KeyK, 2, 3)>>, 2)>>, 1)>>],
     [sections |-> <<SectionNode(NameS, <<Assign(KeyK, 6, 2)>>, 1),
                     SectionNode(NameS, <<Assign(KeyK, 8, 4)>>, 3)>>,
      conditionals |->
          <<ConditionalNode(CondTruthy,
                            <<SectionNode(NameS, <<Assign(KeyK, 2, 10)>>, 9)>>, 8),
            ConditionalNode(CondUnset,
                            <<SectionNode(NameS, <<Assign(KeyJ, 4, 13)>>, 12)>>, 11)>>]}

\* an included document: empty, or  k = 11 / >> s / k = 13 / j = 14,  or
\* k :: int = "x"  whose conversion fails
IncludedBodies ==
    {[sections |-> <<>>, conditionals |-> <<>>],
     [sections |-> <<SectionNode(<<>>, <<Assign(KeyK, 11, 1)>>, 1),
                     SectionNode(NameS, <<Assign(KeyK, 13, 3), Assign(KeyJ, 14, 4)>>, 2)>>,
      conditionals |-> <<>>],
     [sections |-> <<SectionNode(<<>>,
                        <<AssignmentNode(KeyK,
                              WithHint(ValueNode(VStr(<<"x">>), 1), HintInt), 1)>>, 1)>>,
      conditionals |-> <<>>]}

\* the include paths a document may use, by the file it is in
RootTargets == {RelPath(<<"a">>), RelPath(<<"b">>), RelPath(<<"d", "c">>),
                RelPath(<<"m">>)}
TargetsB == {RelPath(<<"a">>), RelPath(<<"d", "c">>)}
TargetsC == {RelPath(<<"..", "a">>), RelPath(<<".", "..", "b">>), AbsPath(<<"d", "c">>)}

\* the sequences of at most n include directives over the targets, on the
\* lines 5, 6, ...
RECURSIVE IncludeLists(_, _)
IncludeLists(targets, n) ==
    IF n = 0 THEN {<<>>}
    ELSE IncludeLists(targets, n - 1)
         \cup {Append(l, IncludeNode(t, 5 + Len(l))) :
                 l \in {x \in IncludeLists(targets, n - 1) : Len(x) = n - 1},
                 t \in targets}

Document(body, includes) == AST(body.sections, body.conditionals, includes)

EvalEnvs == {<<>>, [x \in {CondVar} |-> <<"1">>]}

EvalInit ==
    /\ environ \in EvalEnvs
    /\ \E ra \in RootBodies, ia \in IncludeLists(RootTargets, MaxIncludes),
          rb \in IncludedBodies, ib \in IncludeLists(TargetsB, 1),
          rc \in IncludedBodies, ic \in IncludeLists(TargetsC, 1) :
          fs = [f \in Files |-> IF f = FileA THEN Document(ra, ia)
                                ELSE IF f = FileB THEN Document(rb, ib)
                                ELSE Document(rc, ic)]
    /\ stack = <<NewFrame(ParentDir(FileA), fs[FileA])>>
    /\ included = {}
    /\ outcome = NotDone

Running == stack # <<>>

\* when the top evaluator can take its next step
CanInclude == Running /\ Top(stack).phase = "includes" /\ Len(stack) < MaxStack
CanPhase == Running /\ Top(stack).phase \in {"sections", "conditionals"}
CanReturn == Running /\ Top(stack).phase = "return"

\* the top evaluator comes to its next include directive
Include ==
    /\ CanInclude
    /\ LET After(r) == /\ stack' = r.stack
                       /\ included' = r.included
                       /\ outcome' = r.outcome
       IN  After(ProcessInclude(stack, included, fs))
    /\ UNCHANGED <<fs, environ, evalOthers>>

\* the top evaluator runs its sections loop or its conditionals loop
Phase ==
    /\ CanPhase
    /\ LET After(r) == /\ stack' = r.stack
                       /\ included' = r.included
                       /\ outcome' = r.outcome
       IN  After(RunPhase(stack, included, environ))
    /\ UNCHANGED <<fs, environ, evalOthers>>

\* the top evaluator returns its Config
Return ==
    /\ CanReturn
    /\ LET After(r) == /\ stack' = r.stack
                       /\ included' = r.included
                       /\ outcome' = r.outcome
       IN  After(ReturnFrom(stack, included))
    /\ UNCHANGED <<fs, environ, evalOthers>>

InitE == EvalInit /\ MergeIdle /\ call = NoCall /\ LexIdle /\ TripIdle /\ RestIdle
NextE == Include \/ Phase \/ Return
SpecEval == InitE /\ [][NextE]_vars


\* what the load returned
LoadDone == outcome.done
LoadOk == outcome.done /\ outcome.err = NoErr

IsPrefix(a, b) == Len(a) <= Len(b) /\ SubSeq(b, 1, Len(a)) = a

\* every include in document order, then the sections, then the conditionals
PhaseOrder(ast) ==
    [i \in 1..Len(ast.includes) |-> <<"include", i>>]
        \o << <<"sections">>, <<"conditionals">> >>

\* the key paths the sections write and the literals they write, in order
SectionPath(section) ==
    IF section.name # <<>> THEN Split(section.name, ".") ELSE <<>>
RECURSIVE WritesOf(_, _)
WritesOf(sections, i) ==
    IF i > Len(sections) THEN <<>>
    ELSE [j \in 1..Len(sections[i].assignments) |->
             <<SectionPath(sections[i]) \o <<sections[i].assignments[j].key>>,
               sections[i].assignments[j].value.value>>]
         \o WritesOf(sections, i + 1)
\* the sections of the conditionals whose predicate holds, in order
RECURSIVE TrueSections(_, _, _)
TrueSections(conditionals, i, env) ==
    IF i > Len(conditionals) THEN <<>>
    ELSE (IF EvaluateCondition(conditionals[i].condition, env).b
          THEN conditionals[i].sections ELSE <<>>)
         \o TrueSections(conditionals, i + 1, env)
WritesTo(writes, path) == {i \in DOMAIN writes : writes[i][1] = path}
LastWrite(writes, path) ==
    writes[CHOOSE i \in WritesTo(writes, path) :
               \A j \in WritesTo(writes, path) : j <= i][2]
\* the value at a key path of a tree, when there
RECURSIVE GetPath(_, _, _)
GetPath(v, path, i) ==
    IF i > Len(path) THEN Some(v)
    ELSE IF v.t = "map" /\ DictHas(v.m, path[i])
    THEN GetPath(DictGet(v.m, path[i]), path, i + 1)
    ELSE None

RootAst == fs[FileA]
RootSectionWrites == WritesOf(RootAst.sections, 1)
RootConditionalWrites == WritesOf(TrueSections(RootAst.conditionals, 1, environ), 1)

\* C1: every evaluate call goes through its phases in the order includes
\* (in document order), sections, conditionals, wherever the nodes stood in
\* the text; so in the tree of a load a key path written by a true
\* conditional of the root has the conditional's value, and one written by
\* a section and by no true conditional has the section's, whatever the
\* includes wrote there.
C1_PhaseOrder ==
    /\ \A i \in DOMAIN stack : IsPrefix(stack[i].log, PhaseOrder(stack[i].ast))
    /\ LoadOk =>
        /\ outcome.log = PhaseOrder(RootAst)
        /\ \A i \in DOMAIN RootConditionalWrites :
               GetPath(outcome.v, RootConditionalWrites[i][1], 1)
                   = Some(LastWrite(RootConditionalWrites, RootConditionalWrites[i][1]))
        /\ \A i \in DOMAIN RootSectionWrites :
               WritesTo(RootConditionalWrites, RootSectionWrites[i][1]) = {}
                   => GetPath(outcome.v, RootSectionWrites[i][1], 1)
                          = Some(LastWrite(RootSectionWrites, RootSectionWrites[i][1]))

\* a load whose include (line 5) wrote k, s.k and s.j, whose section (line 8)
\* wrote k = 4 and whose true conditional (line 1) wrote k = 2: k is the
\* conditional's and s.j the include's
C1_Witness ==
    /\ LoadOk
    /\ Len(RootAst.includes) = 1
    /\ <<"include", 1>> \in Events(outcome.log)
    /\ GetPath(outcome.v, KeyK, 1) = Some(VInt(2))
    /\ LastWrite(RootSectionWrites, KeyK) = VInt(4)
    /\ GetPath(outcome.v, NameS \o KeyJ, 1) = Some(VInt(14))

\* the include graph: the files a file's directives name
IncludeEdges(f) ==
    {Resolve(JoinPath(ParentDir(f), fs[f].includes[i].path)) :
        i \in DOMAIN fs[f].includes} \cap Files
RECURSIVE IncludeClosure(_, _)
IncludeClosure(S, n) ==
    IF n = 0 THEN S
    ELSE IncludeClosure(S \cup UNION {IncludeEdges(f) : f \in S}, n - 1)
OnCycle(f) == f \in IncludeClosure(IncludeEdges(f), Cardinality(Files))
HasCycle == \E f \in IncludeClosure({FileA}, Cardinality(Files)) : OnCycle(f)

\* C2 as stated: loading a root whose include graph has a cycle fails with
\* IncludeError.
C2_CycleRaisesIncludeError ==
    (LoadDone /\ HasCycle) => outcome.err.kind = "IncludeError"

\* C2, amended: loading a root whose include graph has a cycle fails and
\* returns no tree; the error is the IncludeError of an include directive,
\* unless the sections of a file included before the cycle closes raise
\* their own EvaluationError first.
C2_CycleFails ==
    (LoadDone /\ HasCycle) =>
        /\ outcome.err # NoErr
        /\ outcome.v = VNull
        /\ \/ outcome.err.kind = "IncludeError" /\ outcome.by = "include"
           \/ outcome.err.kind = "EvaluationError" /\ outcome.by = "sections"

\* the cycle a -> b -> d/c -> ../a: all three files entered (a a second
\* time), then IncludeError
C2_Witness ==
    /\ LoadDone
    /\ outcome.err.kind = "IncludeError"
    /\ Len(RootAst.includes) = 1
    /\ IncludeEdges(FileA) = {FileB}
    /\ IncludeEdges(FileB) = {FileC}
    /\ IncludeEdges(FileC) = {FileA}
    /\ included = Files

\* a bound on the steps a load has left: every canonical path a directive
\* can name and that is not in the chain may still be entered once, and a
\* frame has its remaining directives and loops to go through
NameablePaths == Files \cup {<<"m">>}
FrameSteps(frame) ==
    (IF frame.idx <= Len(frame.ast.includes)
     THEN Len(frame.ast.includes) + 1 - frame.idx ELSE 0)
    + (CASE frame.phase = "conditionals" -> 2
         [] frame.phase = "return" -> 1
         [] OTHER -> 3)
RECURSIVE StackSteps(_, _)
StackSteps(stk, i) ==
    IF i > Len(stk) THEN 0 ELSE FrameSteps(stk[i]) + StackSteps(stk, i + 1)
StepsLeft ==
    (MaxIncludes + 4) * Cardinality(NameablePaths \ included) + StackSteps(stack, 1)

---------------------------------------------------------------------------
(* SpecLex: tokenize(text) run one loop iteration at a time                *)

MaxLexLen == 3
MaxLexSteps == 24

\* the characters of the values the texts assign to k
LexAlphabet == {"a", "1", "[", "]", "?", ",", " ", "\n", "\"", "$", "#"}
RECURSIVE TextsUpTo(_, _)
TextsUpTo(chars, n) ==
    IF n = 0 THEN {<<>>}
    ELSE LET shorter == TextsUpTo(chars, n - 1)
         IN  shorter \cup {Append(t, c) : t \in shorter, c \in chars}
\* texts whose lines are of every kind tokenize knows
LexDocuments ==
    { <<">",">"," ","s","\n"," "," ","k"," ",":",":"," ","i","n","t"," ","=",
        " ","1"," ","#","c","\n">>,
      <<">",">"," ","@","w","h","e","n"," ","$","e","n","v",".","A","\n",
        ">",">","s","\n","k","=","o","n">>,
      <<"@","i","n","c","l","u","d","e"," ","\"","a","\"","\n",
        "@","i","n","c","l","u","d","e"," ","b","\n">>,
      <<"k","=","$","e","n","v",".","A"," ","?","?"," ","$","s","e","c","r","e","t",
        ".","K"," ","?","?"," ","n","i","l">>,
      <<"k"," ","=","[","1",",","\n"," ","[","2","]"," ","?","?","[","]",",","#",
        "c","\n","]">>,
      <<"k","\n","%">> }
LexTexts ==
    LexDocuments \cup {<<"k", "=">> \o t : t \in TextsUpTo(LexAlphabet, MaxLexLen)}

LexInit ==
    /\ lexer \in {Lexer(text) : text \in LexTexts}
    /\ iters = 0

\* an iteration of the loop of tokenize
TokenizeLoop ==
    /\ LexRunning(lexer) /\ ~InArray(lexer) /\ TopLoops(lexer)
    /\ iters < MaxLexSteps
    /\ lexer' = TopIteration(lexer)
    /\ iters' = iters + 1
    /\ UNCHANGED lexOthers
\* tokenize leaves its loop and returns
TokenizeReturn ==
    /\ LexRunning(lexer) /\ ~InArray(lexer) /\ ~TopLoops(lexer)
    /\ lexer' = TopReturn(lexer)
    /\ UNCHANGED <<iters, lexOthers>>
\* an iteration of the loop of the innermost _read_array
ReadArrayLoop ==
    /\ LexRunning(lexer) /\ InArray(lexer) /\ ArrayLoops(lexer)
    /\ iters < MaxLexSteps
    /\ lexer' = ArrayIteration(lexer)
    /\ iters' = iters + 1
    /\ UNCHANGED lexOthers
\* the innermost _read_array leaves its loop and returns
ReadArrayReturn ==
    /\ LexRunning(lexer) /\ InArray(lexer) /\ ~ArrayLoops(lexer)
    /\ lexer' = ArrayReturn(lexer)
    /\ UNCHANGED <<iters, lexOthers>>

InitL == LexInit /\ MergeIdle /\ ValueIdle /\ EvalIdle /\ TripIdle /\ RestIdle
NextL == TokenizeLoop \/ TokenizeReturn \/ ReadArrayLoop \/ ReadArrayReturn
SpecLex == InitL /\ [][NextL]_vars

\* C4: tokenize ends on every text, with a token list that ends with EOF or
\* with a LexerError: every iteration of the loop of tokenize and of the loop
\* of _read_array takes at least one character or emits at least one token,
\* unless it raises.
C4_TokenizeProgress ==
    /\ [](lexer.done => /\ lexer.tokens # <<>>
                        /\ lexer.tokens[Len(lexer.tokens)].type = "EOF")
    /\ [][iters' # iters
             => \/ lexer'.err # NoLexErr
                \/ lexer'.pos > lexer.pos
                \/ Len(lexer'.tokens) > Len(lexer.tokens)]_vars

\* the iterations of the loop of tokenize itself do so
TokenizeLoopProgress ==
    [][iters' # iters /\ ~InArray(lexer)
          => \/ lexer'.err # NoLexErr
             \/ lexer'.pos > lexer.pos
             \/ Len(lexer'.tokens) > Len(lexer.tokens)]_vars
\* a tokenize call that has not ended within the steps allowed is at an
\* iteration that changes nothing
LexCutOff ==
    LexRunning(lexer) /\ iters = MaxLexSteps => LexStep(lexer) = lexer

---------------------------------------------------------------------------
(* SpecRT: loads(dumps(tree)) on trees of literals                         *)

MaxTripEntries == 3

TripKeys == <<(<<"a">>), (<<"b", "-", "1">>)>>
\* the leaves: texts, integers, booleans, null and lists of them
TripLeaves ==
    { VStr(<<"x">>), VStr(<<" ", "\"", "\\", "n", "#">>), VInt(-12), VBool(FALSE),
      VNull, VList(<<VInt(1), VStr(<<",", "]">>), VBool(TRUE), VNull>>) }
\* the dicts over TripKeys with exactly n entries in all, nested ones counted
RECURSIVE TripMaps(_)
TripValues(cost) == IF cost = 1 THEN TripLeaves \cup {VMap(<<>>)}
                    ELSE {VMap(m) : m \in TripMaps(cost - 1)}
TripMaps(n) ==
    IF n = 0 THEN {<<>>}
    ELSE { << <<TripKeys[k], v>> >> : k \in {1, 2}, v \in TripValues(n) }
         \cup UNION { { << <<TripKeys[1], v>>, <<TripKeys[2], w>> >> :
                          v \in TripValues(i), w \in TripValues(n - i) } :
                      i \in 1..(n - 1) }
TripTrees == UNION {TripMaps(n) : n \in 0..MaxTripEntries}

\* text = dumps(data); loads(text), with no environment variable set
RoundTrip(data) ==
    /\ ~trip.made
    /\ trip' = [made |-> TRUE, data |-> data, text |-> Dumps(data),
                res |-> LoadsText(Dumps(data), <<>>)]
    /\ UNCHANGED tripOthers

InitR == TripIdle /\ MergeIdle /\ ValueIdle /\ EvalIdle /\ LexIdle /\ RestIdle
NextR == \E data \in TripTrees : RoundTrip(data)
SpecRT == InitR /\ [][NextR]_vars

\* C5: loads(dumps(tree)) is a tree deep-equal to the tree dumped, for every
\* tree of nested maps with bare keys whose leaves are texts, integers,
\* booleans, null or lists of these.
C5_RoundTrip ==
    trip.made => /\ ~trip.res.hang
                 /\ trip.res.err = NoErr
                 /\ TreeEq(trip.res.v, VMap(trip.data))

\* a dict in which some nested dict, at any depth, is empty
RECURSIVE HasEmptyMap(_)
HasEmptyMap(m) ==
    \E n \in DOMAIN m :
        m[n][2].t = "map" /\ (m[n][2].m = <<>> \/ HasEmptyMap(m[n][2].m))
\* the round trip of the trees in which no nested dict is empty
RoundTripNonEmpty ==
    trip.made /\ ~HasEmptyMap(trip.data)
        => /\ ~trip.res.hang
           /\ trip.res.err = NoErr
           /\ TreeEq(trip.res.v, VMap(trip.data))

---------------------------------------------------------------------------
(* SpecCond: _evaluate_condition on predicate strings                      *)

MaxCondSpaces == 1

CondNameA == <<"A">>
CondRefs ==
    { <<"$","e","n","v",".","A">>, <<"$","e","n","v",".","A","_","1">>,
      <<"$","e","n","v",".">>, <<"$","e","n","v","A">>, <<"A">>,
      <<"$","s","e","c","r","e","t",".","A">> }
CondOperators == { <<>>, <<"=","=">>, <<"!","=">>, <<"=">> }
CondLiterals ==
    { <<>>, <<"x">>, <<"\"","x","\"">>, <<"'","x","'">>, <<"\"","\"">>,
      <<"\"","x">>, <<"\"","x","\"","\"">>, <<"\"","x","\""," ","y">>,
      <<"x"," ","y">>, <<"\"","x"," ","y","\"">> }
Conditions ==
    { Spaces(a) \o ref \o Spaces(b) \o op \o Spaces(b) \o lit \o Spaces(a) :
        a \in 0..MaxCondSpaces, b \in 0..MaxCondSpaces,
        ref \in CondRefs, op \in CondOperators, lit \in CondLiterals }
CondEnvs ==
    { <<>> } \cup { [n \in {CondNameA} |-> v] : v \in {<<>>, <<"x">>, <<"x"," ","y">>} }

CondInit ==
    /\ environ \in CondEnvs
    /\ app = NoApp

\* self._evaluate_condition(condition)
EvaluatePredicate(condition) ==
    /\ app = NoApp
    /\ app' = [fn |-> "_evaluate_condition", arg |-> condition,
               res |-> EvaluateCondition(condition, environ)]
    /\ UNCHANGED <<environ, appOthers>>

InitC == CondInit /\ MergeIdle /\ call = NoCall /\ EvalIdle /\ LexIdle /\ TripIdle
         /\ past = <<>> /\ chain = <<>>
NextC == \E condition \in Conditions : EvaluatePredicate(condition)
SpecCond == InitC /\ [][NextC]_vars

\* the three shapes, each of the whole predicate string: the reference, then
\* for a comparison the operator and a literal, quoted or not, to the end
ShapeCompare(c) ==
    LET w == WordEnd(c, 6)
        o == ReSpaceEnd(c, w)
        q == ReSpaceEnd(c, o + 2)
        v == IF q <= Len(c) /\ c[q] \in {"\"", "'"} THEN q + 1 ELSE q
        z == NonQuoteEnd(c, v)
        e == IF z <= Len(c) THEN z + 1 ELSE z
    IN  [ok |-> /\ StartsWithAt(c, 1, EnvRefPrefix) /\ w > 6
                /\ Slice(c, o, o + 1) \in {<<"=","=">>, <<"!","=">>}
                /\ e = Len(c) + 1,
         name |-> Slice(c, 6, w - 1), equal |-> Slice(c, o, o + 1) = <<"=","=">>,
         literal |-> Slice(c, v, z - 1)]
ShapeBare(c) ==
    [ok |-> StartsWithAt(c, 1, EnvRefPrefix) /\ Len(c) > 5
            /\ WordEnd(c, 6) = Len(c) + 1,
     name |-> Drop(c, 6)]
EnvOrEmpty(env, name) == IF name \in DOMAIN env THEN env[name] ELSE <<>>
ShapeTrue(c, env) ==
    \/ /\ ShapeCompare(c).ok
       /\ ShapeCompare(c).equal <=> (EnvOrEmpty(env, ShapeCompare(c).name)
                                        = ShapeCompare(c).literal)
    \/ /\ ShapeBare(c).ok
       /\ EnvOrEmpty(env, ShapeBare(c).name) # <<>>

PredicateEvaluated == app.fn = "_evaluate_condition"

\* C11: a predicate string evaluates true exactly when, taken as a whole, it
\* is `$env.NAME == literal` and the value of NAME (empty when unset) equals
\* the literal, or `$env.NAME != literal` and the value differs, or
\* `$env.NAME` and NAME is set and not empty; every other string evaluates
\* false.
C11_PredicateShapes ==
    PredicateEvaluated => (app.res.b <=> ShapeTrue(Strip(app.arg), environ))

\* a predicate string that is of one of the three shapes evaluates as its
\* shape says
WholeShapesEvaluate ==
    PredicateEvaluated
    /\ (ShapeCompare(Strip(app.arg)).ok \/ ShapeBare(Strip(app.arg)).ok)
        => (app.res.b <=> ShapeTrue(Strip(app.arg), environ))

---------------------------------------------------------------------------
(* loads(text) on documents drawn from a family, in a drawn environment    *)

\* loads(text)
LoadsCall(text) ==
    /\ app = NoApp
    /\ app' = [fn |-> "loads", arg |-> text, res |-> LoadsTraced(Parse(text), environ)]
    /\ UNCHANGED <<environ, appOthers>>
AppIdleOthers ==
    /\ MergeIdle /\ call = NoCall /\ EvalIdle /\ LexIdle /\ TripIdle
    /\ past = <<>> /\ chain = <<>>
Loaded == app.fn = "loads"
LoadReturned == Loaded /\ ~app.res.out.hang /\ app.res.out.err = NoErr

\* the lookups a node makes if every reference in it is resolved
RECURSIVE NodeEvents(_)
ItemEvents(item) ==
    IF item.t = "map" /\ DictHas(item.m, EnvItemKey)
    THEN {<<"env", DictGet(item.m, EnvItemKey).s>>}
    ELSE IF item.t = "map" /\ DictHas(item.m, SecretItemKey)
    THEN {<<"env", SecretPrefix \o DictGet(item.m, SecretItemKey).s>>}
    ELSE {}
NodeEvents(node) ==
    (IF Truthy(node.env_var) THEN {<<"env", node.env_var[1]>>} ELSE {})
    \cup (IF Truthy(node.secret) THEN {<<"env", SecretPrefix \o node.secret[1]>>} ELSE {})
    \cup (IF node.default # None THEN NodeEvents(node.default[1]) ELSE {})
    \cup (IF node.value.t = "list"
          THEN UNION {ItemEvents(node.value.l[n]) : n \in DOMAIN node.value.l}
          ELSE {})
SectionEvents(section) ==
    UNION {NodeEvents(section.assignments[n].value) : n \in DOMAIN section.assignments}
SectionsEvents(sections) == UNION {SectionEvents(sections[n]) : n \in DOMAIN sections}
ConditionEvents(conditional, env) ==
    Range(EvaluateCondition(conditional.condition, env).log)
RemoveAt(seq, i) == SubSeq(seq, 1, i - 1) \o SubSeq(seq, i + 1, Len(seq))

---------------------------------------------------------------------------
(* SpecWhen: documents with conditionals                                   *)

WhenVar == <<"M">>
WhenEnvs == { <<>> } \cup { [n \in {WhenVar} |-> v] : v \in {<<>>, <<"o","n">>} }
WhenHeads == { <<>>, <<">",">"," ","s","\n"," "," ","k"," ","="," ","1","\n">> }
WhenConditions == { <<"$","e","n","v",".","M">>, <<"$","e","n","v",".","M"," ","=","="," ","\"","o","n","\"">>, <<"$","e","n","v",".","M"," ","!","="," ","o","n">> }
WhenPaths == { <<"s">>, <<"s",".","t">>, <<"s",".","k",".","x">> }
WhenAssignments ==
    { <<"k"," ","="," ","2">>, <<"k"," ","="," ","$","e","n","v",".","Z">>, <<"k"," ","="," ","$","s","e","c","r","e","t",".","Q"," ","?","?"," ","$","e","n","v",".","Y">>, <<"k"," ",":",":"," ","i","n","t"," ","="," ","\"","b","a","d","\"">>, <<"k"," ",":",":"," ","f","o","o"," ","="," ","1">>, <<"k"," ","="," ","[","$","e","n","v",".","Z",","," ","$","s","e","c","r","e","t",".","Q","]">>, <<"k"," ",":",":"," ","i","n","t"," ","="," ","$","e","n","v",".","M">> }
WhenTails == { <<>>, <<">",">"," ","@","w","h","e","n"," ","$","e","n","v",".","M","\n",">",">"," ","u","\n"," "," ","j"," ","="," ","$","e","n","v",".","M","\n">> }
WhenDocs ==
    { head \o <<">",">"," ","@","w","h","e","n"," ">> \o cond \o <<"\n">> \o <<">",">"," ">> \o path \o <<"\n", " ", " ">>
        \o asg \o <<"\n">> \o tail :
        head \in WhenHeads, cond \in WhenConditions, path \in WhenPaths,
        asg \in WhenAssignments, tail \in WhenTails }

InitW == environ \in WhenEnvs /\ app = NoApp /\ AppIdleOthers
NextW == \E text \in WhenDocs : LoadsCall(text)
SpecWhen == InitW /\ [][NextW]_vars

\* the conditionals of the document loaded whose predicate is false
FalseConditionals ==
    {i \in DOMAIN app.res.ast.conditionals :
        ~EvaluateCondition(app.res.ast.conditionals[i].condition, environ).b}
\* the document without its i-th conditional
WithoutConditional(i) ==
    [app.res.ast EXCEPT !.conditionals = RemoveAt(@, i)]
\* the lookups that only the sections of the i-th conditional could make
OwnEvents(i) ==
    SectionsEvents(app.res.ast.conditionals[i].sections)
    \ (SectionsEvents(app.res.ast.sections)
       \cup UNION {SectionsEvents(app.res.ast.conditionals[j].sections)
                   \cup ConditionEvents(app.res.ast.conditionals[j], environ) :
                   j \in DOMAIN app.res.ast.conditionals \ {i}}
       \cup ConditionEvents(app.res.ast.conditionals[i], environ))
SameAsWithout(i) ==
    LET Same(r) == /\ app.res.out.err = r.err
                   /\ app.res.out.v = (IF r.err = NoErr THEN r.v ELSE VNull)
    IN  Same(EvaluateLocal(WithoutConditional(i), <<>>, environ, None))

\* C12: a conditional whose predicate is false contributes nothing: the load
\* gives what the document without the conditional gives (the same tree or
\* the same error), and no lookup is made for the references of its
\* assignments.
C12_FalseConditionalInert ==
    Loaded =>
        \A i \in FalseConditionals :
            /\ SameAsWithout(i)
            /\ OwnEvents(i) \cap Events(app.res.out.log) = {}

\* a load that returns although its false conditional holds an assignment
\* that fails coercion, and one that returns the unconditional value although
\* its false conditional holds references to look up
C12_Witness ==
    /\ LoadReturned
    /\ app.res.out.v # VMap(<<>>)
    /\ \E i \in FalseConditionals :
           /\ OwnEvents(i) # {}
           /\ \E j \in DOMAIN app.res.ast.conditionals : j \notin FalseConditionals

---------------------------------------------------------------------------
(* SpecFail: documents whose assignments fail                              *)

FailEnvs ==
    { <<>>, [n \in {WhenVar} |-> <<"o","n">>],
      [n \in {WhenVar, <<"A">>, <<"B">>, <<"C">>} |->
          IF n = WhenVar THEN <<"o","n">> ELSE IF n = <<"A">> THEN <<"x">> ELSE <<"7">>] }
\* the values of the assignment to key a (b, c): its references are to
\* names made from the key
FailValues(n) ==
    { <<" ","="," ">> \o <<"1">>,
      <<" ","="," ">> \o <<"$","e","n","v",".">> \o n,
      <<" ","="," ">> \o <<"$","s","e","c","r","e","t",".">> \o n \o <<" ","?","?"," ","$","e","n","v",".">> \o n \o n,
      <<" ",":",":"," ","i","n","t">> \o <<" ","="," ">> \o <<"\"","b","a","d","\"">>,
      <<" ",":",":"," ","f","o","o">> \o <<" ","="," ">> \o <<"1">>,
      <<" ",":",":"," ","i","n","t">> \o <<" ","="," ">> \o <<"$","e","n","v",".">> \o n }
FailIncludes == { <<>>, <<"@","i","n","c","l","u","d","e"," ","\"","f","\"","\n">> }
FailDocs ==
    { <<">",">"," ","s","\n"," "," ">> \o <<"a">> \o va \o <<"\n", " ", " ", "b">> \o vb \o <<"\n">>
        \o <<">",">"," ","@","w","h","e","n"," ","$","e","n","v",".","M","\n",">",">"," ","t","\n"," "," ">> \o <<"c">> \o vc \o <<"\n">> \o inc :
        va \in FailValues(<<"A">>), vb \in FailValues(<<"B">>),
        vc \in FailValues(<<"C">>), inc \in FailIncludes }

InitF == environ \in FailEnvs /\ app = NoApp /\ AppIdleOthers
NextF == \E text \in FailDocs : LoadsCall(text)
SpecFail == InitF /\ [][NextF]_vars

\* what evaluate works through, in order: the assignments of the sections,
\* then each conditional's predicate and, when it holds, the assignments of
\* its sections
RECURSIVE SectionSteps(_, _)
SectionSteps(sections, i) ==
    IF i > Len(sections) THEN <<>>
    ELSE [n \in DOMAIN sections[i].assignments |->
             [predicate |-> None, node |-> Some(sections[i].assignments[n].value)]]
         \o SectionSteps(sections, i + 1)
RECURSIVE ConditionalSteps(_, _, _)
ConditionalSteps(conditionals, i, env) ==
    IF i > Len(conditionals) THEN <<>>
    ELSE <<[predicate |-> Some(conditionals[i].condition), node |-> None]>>
         \o (IF EvaluateCondition(conditionals[i].condition, env).b
             THEN SectionSteps(conditionals[i].sections, 1) ELSE <<>>)
         \o ConditionalSteps(conditionals, i + 1, env)
EvaluationSteps(ast, env) ==
    SectionSteps(ast.sections, 1) \o ConditionalSteps(ast.conditionals, 1, env)
\* one of them on its own: the error it raises and the lookups it makes
StepAlone(step, env) ==
    IF step.predicate # None
    THEN [err |-> NoErr, log |-> EvaluateCondition(step.predicate[1], env).log]
    ELSE [err |-> EvaluateValue(step.node[1], env, None).err,
          log |-> EvaluateValue(step.node[1], env, None).log]
\* the first of them that raises (0: none)
FirstFailure(steps, env) ==
    IF \E n \in DOMAIN steps : StepAlone(steps[n], env).err # NoErr
    THEN CHOOSE n \in DOMAIN steps :
             /\ StepAlone(steps[n], env).err # NoErr
             /\ \A k \in 1..(n - 1) : StepAlone(steps[k], env).err = NoErr
    ELSE 0
RECURSIVE LogsUpTo(_, _, _)
LogsUpTo(steps, n, env) ==
    IF n = 0 THEN <<>>
    ELSE LogsUpTo(steps, n - 1, env) \o StepAlone(steps[n], env).log

\* the load of a document with an include, with a failing step, with neither
FailFast(ast, env, out) ==
    LET Steps(steps, f) ==
            IF f = 0
            THEN out.err = NoErr /\ out.log = LogsUpTo(steps, Len(steps), env)
            ELSE /\ out.err = StepAlone(steps[f], env).err
                 /\ out.v = VNull
                 /\ out.log = LogsUpTo(steps, f, env)
        Then(steps) == Steps(steps, FirstFailure(steps, env))
    IN  IF ast.includes # <<>>
        THEN out.err.kind = "IncludeError" /\ out.v = VNull /\ out.log = <<>>
        ELSE Then(EvaluationSteps(ast, env))

\* C13: evaluation is fail-fast: a load returns a whole tree or raises, and
\* when it raises it returns no tree and has made exactly the lookups of the
\* steps up to the first one that fails (a missing include fails before any
\* lookup): nothing after the first error is looked up or applied.
C13_FailFast == Loaded => FailFast(app.res.ast, environ, app.res.out)

\* a load that raises at its first assignment, whose later assignments hold
\* references that are set in the environment
C13_Witness ==
    /\ Loaded
    /\ app.res.ast.includes = <<>>
    /\ app.res.out.err.kind = "EvaluationError"
    /\ FirstFailure(EvaluationSteps(app.res.ast, environ), environ) = 1
    /\ app.res.out.log = <<>>
    /\ <<"env", <<"B">>>> \in SectionsEvents(app.res.ast.sections)
    /\ <<"B">> \in DOMAIN environ

\* across files: once a load has raised, no evaluate call is left to read
\* a file, run a loop or return, and the load has returned no tree
LoadStopsAtError ==
    outcome.err # NoErr =>
        /\ ~CanInclude /\ ~CanPhase /\ ~CanReturn
        /\ outcome.v = VNull

---------------------------------------------------------------------------
(* SpecParse: parse(text) on assignments whose value is a run of pieces    *)

MaxParsePieces == 4

ParsePieces == { <<"1"," ">>, <<"$","e","n","v",".","A"," ">>, <<"?","?"," ">>, <<"[">>, <<"]"," ">>, <<","," ">> }
RECURSIVE PieceRuns(_)
PieceRuns(n) ==
    IF n = 0 THEN {<<>>}
    ELSE PieceRuns(n - 1)
         \cup {run \o piece : run \in PieceRuns(n - 1), piece \in ParsePieces}
ParseDocuments == { <<">",">"," ","s","\n"," "," ","k"," ",":",":"," ","i","n","t"," ","="," ","[","1",","," ","\"","x","\"",","," ","[","t","r","u","e",","," ","n","u","l","l","]","]","\n",">",">"," ","@","w","h","e","n"," ","$","e","n","v",".","A","\n",">",">"," ","t","\n"," "," ","j"," ","="," ","$","s","e","c","r","e","t",".","B"," ","?","?"," ","$","e","n","v",".","C"," ","?","?"," ","2"," ","#"," ","c","\n","@","i","n","c","l","u","d","e"," ","\"","f","\"","\n">>, <<"k"," ","="," ","1","\n","j","\n">>, <<"k"," ",":",":"," ","i","n","t","\n">> }
ParseTexts ==
    ParseDocuments \cup {<<"k"," ","="," ">> \o run : run \in PieceRuns(MaxParsePieces)}

\* parse(text): the tokens of tokenize, then Parser(tokens).parse()
ParseCall(text) ==
    /\ app = NoApp
    /\ app' = [fn |-> "parse", arg |-> text,
               res |-> [tokens |-> Tokenize(text).tokens,
                        out |-> ParseLexed(Tokenize(text))]]
    /\ UNCHANGED <<environ, appOthers>>

InitP == environ = <<>> /\ app = NoApp /\ AppIdleOthers
NextP == \E text \in ParseTexts : ParseCall(text)
SpecParse == InitP /\ [][NextP]_vars

\* the grammar, on the token kinds (comments, newlines and indentation are
\* layout): each recogniser gives the position after what it derives, or 0
IsLayout(tok) == tok.type \in {"COMMENT", "NEWLINE", "INDENT"}
IsToken(tok) == ~IsLayout(tok)
ScalarKinds == {"STRING", "NUMBER", "BOOLEAN", "NULL"}
ReferenceKinds == {"ENV_VAR", "SECRET"}
RECURSIVE GrammarValue(_, _)
RECURSIVE GrammarItems(_, _)
\* after a value of an array: `]`, or `,` and another value
GrammarItems(toks, pos) ==
    IF pos = 0 THEN 0
    ELSE IF TokType(toks, pos) = "RBRACKET" THEN pos + 1
    ELSE IF TokType(toks, pos) = "COMMA"
    THEN GrammarItems(toks, GrammarValue(toks, pos + 1))
    ELSE 0
GrammarValue(toks, pos) ==
    IF TokType(toks, pos) \in ScalarKinds THEN pos + 1
    ELSE IF TokType(toks, pos) \in ReferenceKinds
    THEN (IF TokType(toks, pos + 1) = "DEFAULT_OP"
          THEN GrammarValue(toks, pos + 2) ELSE pos + 1)
    ELSE IF TokType(toks, pos) = "LBRACKET"
    THEN (IF TokType(toks, pos + 1) = "RBRACKET" THEN pos + 2
          ELSE GrammarItems(toks, GrammarValue(toks, pos + 1)))
    ELSE 0
GrammarAssignment(toks, pos) ==
    LET Equals(p) ==
            IF TokType(toks, p) = "EQUALS" THEN GrammarValue(toks, p + 1) ELSE 0
    IN  IF TokType(toks, pos + 1) = "TYPE_HINT" THEN Equals(pos + 2)
        ELSE Equals(pos + 1)
RECURSIVE GrammarDocument(_, _)
GrammarDocument(toks, pos) ==
    IF pos = 0 THEN FALSE
    ELSE IF TokType(toks, pos) = "EOF" THEN pos = Len(toks)
    ELSE IF TokType(toks, pos) \in {"SECTION", "SECTION_WHEN", "INCLUDE"}
    THEN GrammarDocument(toks, pos + 1)
    ELSE IF TokType(toks, pos) = "KEY"
    THEN GrammarDocument(toks, GrammarAssignment(toks, pos))
    ELSE FALSE
Derivable(tokens) == GrammarDocument(SelectSeq(tokens, IsToken), 1)

Parsed == app.fn = "parse" /\ ~app.res.out.hang /\ app.res.out.err.kind # "LexerError"

\* C14: on the tokens of tokenize, parse returns an AST only when the tokens
\* are derivable from the grammar, and raises ParseError for every other
\* token stream; no token is skipped.
C14_GrammarConformance ==
    Parsed => /\ app.res.out.err = NoErr <=> Derivable(app.res.tokens)
              /\ app.res.out.err.kind \in {"", "ParseError"}

\* every derivable token stream is parsed
DerivableParses ==
    Parsed /\ Derivable(app.res.tokens) => app.res.out.err = NoErr

---------------------------------------------------------------------------
(* SpecRef: tokenize(text) on texts with a `$` in value position           *)

RefHeads == { <<"k"," ","="," ">>, <<"k"," ","="," ","[">>, <<"j"," ","="," ","1","\n","k"," ",":",":"," ","s","t","r"," ","="," ","2"," ","?","?"," ">> }
RefWords == { <<>>, <<"e","n","v",".">>, <<"e","n","v","X">>, <<"e","n","v">>, <<"e","n">>, <<"s","e","c","r","e","t",".">>, <<"s","e","c","r","e","t","_">>, <<"s","e","c","r","e">>, <<"x">>, <<".">> }
RefNames == { <<>>, <<"A">>, <<"A","_","1">> }
RefTails == { <<>>, <<" ">>, <<"-","b">>, <<"\n">>, <<".","c","]">> }
RefArgs ==
    [head : RefHeads, word : RefWords, name : RefNames, tail : RefTails]
\* what follows the `$`, and the whole text
RefRest(arg) == arg.word \o arg.name \o arg.tail
RefText(arg) == arg.head \o <<"$">> \o RefRest(arg)

\* tokenize(text)
TokenizeCall(arg) ==
    /\ app = NoApp
    /\ app' = [fn |-> "tokenize", arg |-> arg, res |-> Tokenize(RefText(arg))]
    /\ UNCHANGED <<environ, appOthers>>

InitD == environ = <<>> /\ app = NoApp /\ AppIdleOthers
NextD == \E arg \in RefArgs : TokenizeCall(arg)
SpecRef == InitD /\ [][NextD]_vars

\* line and column of the character after a text
RECURSIVE LineAfter(_)
LineAfter(t) ==
    IF t = <<>> THEN 1
    ELSE LineAfter(SubSeq(t, 1, Len(t) - 1)) + (IF t[Len(t)] = "\n" THEN 1 ELSE 0)
RECURSIVE ColumnAfter(_)
ColumnAfter(t) ==
    IF t = <<>> \/ t[Len(t)] = "\n" THEN 1
    ELSE ColumnAfter(SubSeq(t, 1, Len(t) - 1)) + 1
\* the identifier characters a text starts with
RECURSIVE Identifier(_)
Identifier(t) ==
    IF t # <<>> /\ t[1] \in AlnumChars \cup {"_"}
    THEN <<t[1]>> \o Identifier(Tail(t)) ELSE <<>>
ExactEnv(rest) == IsPrefix(<<"e","n","v",".">>, rest)
ExactSecret(rest) == IsPrefix(<<"s","e","c","r","e","t",".">>, rest)
Tokenized == app.fn = "tokenize"
DollarTokens ==
    {i \in 1..Len(app.res.tokens) :
        /\ app.res.tokens[i].type \in {"ENV_VAR", "SECRET"}
        /\ app.res.tokens[i].line = LineAfter(app.arg.head)
        /\ app.res.tokens[i].column = ColumnAfter(app.arg.head)}

\* C15: a `$` in value position that is not followed by exactly `env.` or
\* `secret.` makes tokenize raise LexerError with the line and column of the
\* `$`; an ENV_VAR or SECRET token is emitted for the `$` only with that
\* prefix, and its name is the identifier characters after the dot.
C15_DollarPrefix ==
    Tokenized =>
        /\ ~ExactEnv(RefRest(app.arg)) /\ ~ExactSecret(RefRest(app.arg))
               => app.res.err = [kind |-> "LexerError",
                                 line |-> LineAfter(app.arg.head),
                                 column |-> ColumnAfter(app.arg.head)]
        /\ \A i \in DollarTokens :
               \/ /\ app.res.tokens[i].type = "ENV_VAR"
                  /\ ExactEnv(RefRest(app.arg))
                  /\ app.res.tokens[i].value = Identifier(Drop(RefRest(app.arg), 5))
               \/ /\ app.res.tokens[i].type = "SECRET"
                  /\ ExactSecret(RefRest(app.arg))
                  /\ app.res.tokens[i].value = Identifier(Drop(RefRest(app.arg), 8))

\* the same with the word alone, whatever the character after it
WordEnv(rest) == IsPrefix(EnvWord, rest)
WordSecret(rest) == IsPrefix(SecretWord, rest)
DollarWord ==
    Tokenized =>
        /\ ~WordEnv(RefRest(app.arg)) /\ ~WordSecret(RefRest(app.arg))
               => app.res.err = [kind |-> "LexerError",
                                 line |-> LineAfter(app.arg.head),
                                 column |-> ColumnAfter(app.arg.head)]
        /\ \A i \in DollarTokens :
               \/ /\ app.res.tokens[i].type = "ENV_VAR"
                  /\ WordEnv(RefRest(app.arg))
                  /\ app.res.tokens[i].value = Identifier(Drop(RefRest(app.arg), 5))
               \/ /\ app.res.tokens[i].type = "SECRET"
                  /\ WordSecret(RefRest(app.arg))
                  /\ app.res.tokens[i].value = Identifier(Drop(RefRest(app.arg), 8))
        /\ WordEnv(RefRest(app.arg)) \/ WordSecret(RefRest(app.arg))
               => DollarTokens # {}

---------------------------------------------------------------------------
(* SpecRoot: parse(text) on documents made of whole lines                  *)

MaxRootLines == 4

RootLines ==
    { [kind |-> "section", text |-> <<">",">"," ","a">>],
      [kind |-> "section", text |-> <<">",">">>],
      [kind |-> "when", text |-> <<">",">"," ","@","w","h","e","n"," ","c">>],
      [kind |-> "key", text |-> <<"k"," ","="," ","1">>],
      [kind |-> "key", text |-> <<" "," ","j"," ",":",":"," ","i","n","t"," ","="," ","$","e","n","v",".","A"," ","?","?"," ","[","2","]">>],
      [kind |-> "include", text |-> <<"@","i","n","c","l","u","d","e"," ","\"","f","\"">>] }
RECURSIVE LineRuns(_)
LineRuns(n) ==
    IF n = 0 THEN {<<>>}
    ELSE LineRuns(n - 1)
         \cup {Append(run, ln) : run \in LineRuns(n - 1), ln \in RootLines}
RECURSIVE LinesText(_)
LinesText(lines) ==
    IF lines = <<>> THEN <<>>
    ELSE lines[1].text \o <<"\n">> \o LinesText(Tail(lines))

\* parse(text) of the lines' text
ParseLines(lines) ==
    /\ app = NoApp
    /\ app' = [fn |-> "lines", arg |-> lines, res |-> Parse(LinesText(lines))]
    /\ UNCHANGED <<environ, appOthers>>

InitO == environ = <<>> /\ app = NoApp /\ AppIdleOthers
NextO == \E lines \in LineRuns(MaxRootLines) : ParseLines(lines)
SpecRoot == InitO /\ [][NextO]_vars

\* the lines of the bare assignments: the key lines that no section line
\* precedes since the start of the document or the last conditional header
RECURSIVE BareFrom(_, _, _)
BareFrom(lines, n, enclosed) ==
    IF n > Len(lines) THEN <<>>
    ELSE IF lines[n].kind = "section" THEN BareFrom(lines, n + 1, TRUE)
    ELSE IF lines[n].kind = "when" THEN BareFrom(lines, n + 1, FALSE)
    ELSE IF lines[n].kind = "key" /\ ~enclosed
    THEN <<n>> \o BareFrom(lines, n + 1, enclosed)
    ELSE BareFrom(lines, n + 1, enclosed)
Bare(lines) == BareFrom(lines, 1, FALSE)
LinesParsed == app.fn = "lines" /\ ~app.res.hang /\ app.res.err = NoErr
\* the sections of the AST that no section line of the document made: a
\* section made for a key carries the line of the key
ImplicitSections ==
    {i \in DOMAIN app.res.ast.sections :
        app.arg[app.res.ast.sections[i].line].kind = "key"}
AssignmentLines(section) ==
    [i \in DOMAIN section.assignments |-> section.assignments[i].line]

\* C16: after parse, an implicit unnamed section exists only if the document
\* has a bare assignment; there is at most one; it is the first of
\* ast.sections; and the bare assignments of the document are all in it, in
\* document order.
C16_ImplicitRoot ==
    LinesParsed =>
        /\ ImplicitSections # {} => Bare(app.arg) # <<>>
        /\ ImplicitSections \subseteq {1}
        /\ Bare(app.arg) # <<>> =>
               /\ ImplicitSections = {1}
               /\ app.res.ast.sections[1].name = <<>>
               /\ AssignmentLines(app.res.ast.sections[1]) = Bare(app.arg)

\* a subsequence of a sequence of numbers in increasing order
IsSubsequence(a, b) ==
    /\ \A i \in DOMAIN a : \E j \in DOMAIN b : a[i] = b[j]
    /\ \A i, j \in DOMAIN a : i < j => a[i] < a[j]
\* the bare assignments are in the first section, which is unnamed: the
\* implicit one, or the document's first section line when it has no name
RootAsCoded ==
    LinesParsed =>
        /\ ImplicitSections # {} => Bare(app.arg) # <<>>
        /\ ImplicitSections \subseteq {1}
        /\ Bare(app.arg) # <<>> =>
               /\ app.res.ast.sections[1].name = <<>>
               /\ IsSubsequence(Bare(app.arg),
                                AssignmentLines(app.res.ast.sections[1]))
               /\ ImplicitSections = {1}
                      => AssignmentLines(app.res.ast.sections[1]) = Bare(app.arg)

---------------------------------------------------------------------------
(* SpecReuse: top-level calls one after the other on the file /a: the      *)
(* Evaluator object's evaluate called again, or load called again          *)

MaxCalls == 3

ReuseInit ==
    /\ environ = <<>>
    /\ \E ra \in RootBodies, ia \in IncludeLists(RootTargets, MaxIncludes),
          rb \in IncludedBodies, ib \in IncludeLists(TargetsB, 1) :
          fs = [f \in Files |-> IF f = FileA THEN Document(ra, ia)
                                ELSE IF f = FileB THEN Document(rb, ib)
                                ELSE Document(ra, <<>>)]
    /\ stack = <<NewFrame(ParentDir(FileA), fs[FileA])>>
    /\ included = {}
    /\ outcome = NotDone

\* what is kept of a call that ended when the next one starts: its outcome,
\* how the next call was made and the chain the next call starts with
Ended(kind, inc) == [kind |-> kind, outcome |-> outcome, chain |-> inc]

\* evaluate(ast) once more on the Evaluator object of the call that ended:
\* data is a new dict, self._included_files is the object's set
EvaluateAgain ==
    /\ outcome.done /\ Len(past) + 1 < MaxCalls
    /\ past' = Append(past, Ended("evaluate", included))
    /\ stack' = <<NewFrame(ParentDir(FileA), fs[FileA])>>
    /\ included' = included
    /\ outcome' = NotDone
    /\ UNCHANGED <<fs, environ, mergeVars, call, lexVars, trip, app, chain>>

\* load(path) once more: Evaluator(base_path, secret_provider), evaluate(ast)
LoadAgain ==
    /\ outcome.done /\ Len(past) + 1 < MaxCalls
    /\ past' = Append(past, Ended("load", {}))
    /\ stack' = <<NewFrame(ParentDir(FileA), fs[FileA])>>
    /\ included' = {}
    /\ outcome' = NotDone
    /\ UNCHANGED <<fs, environ, mergeVars, call, lexVars, trip, app, chain>>

InitU ==
    /\ ReuseInit /\ MergeIdle /\ call = NoCall /\ LexIdle /\ TripIdle
    /\ app = NoApp /\ past = <<>> /\ chain = <<>>
NextU == Include \/ Phase \/ Return \/ EvaluateAgain \/ LoadAgain
SpecReuse == InitU /\ [][NextU]_vars

\* C17: every top-level call starts with an empty include chain: no path
\* recorded during a call is in the chain of a later call, and a document
\* evaluated once without error is evaluated again without error, to an
\* equal tree.
C17_FreshChain ==
    /\ \A i \in DOMAIN past : past[i].chain = {}
    /\ past # <<>> /\ past[1].outcome.err = NoErr /\ outcome.done
           => outcome.err = NoErr /\ outcome.v = past[1].outcome.v

\* the same of the calls made with load, which makes an Evaluator each time
LoadStartsFresh ==
    /\ \A i \in DOMAIN past : past[i].kind = "load" => past[i].chain = {}
    /\ \A i \in DOMAIN past :
           past[i].outcome.err = NoErr /\ outcome.done
           /\ (\A j \in i..Len(past) : past[j].kind = "load")
               => outcome.err = NoErr /\ outcome.v = past[i].outcome.v
\* evaluate called again on the object finds in the chain every path the
\* calls before it recorded
EvaluateKeepsChain ==
    /\ \A i \in DOMAIN past :
           past[i].kind = "evaluate" /\ past[i].outcome.err = NoErr
           /\ fs[FileA].includes # <<>>
               => past[i].chain # {}
    /\ past # <<>> /\ past[Len(past)].kind = "evaluate"
       /\ past[Len(past)].outcome.err = NoErr /\ fs[FileA].includes # <<>>
       /\ outcome.done
           => outcome.err = Err("IncludeError", fs[FileA].includes[1].line)

---------------------------------------------------------------------------
(* SpecCoerce: loads of  k :: <hint> = <value>  with an int or float hint, *)
(* the value a literal, a quoted string or the environment variable A      *)

CoerceHints ==
    { [name |-> <<"i","n","t">>, ty |-> "int"], [name |-> <<"I","n","t","e","g","e","r">>, ty |-> "int"],
      [name |-> <<"f","l","o","a","t">>, ty |-> "float"], [name |-> <<"N","U","M","B","E","R">>, ty |-> "float"] }
CoerceBooleans == { <<"t","r","u","e">>, <<"f","a","l","s","e">>, <<"Y","e","s">>, <<"o","f","f">> }
CoerceIntegers == { <<"1","2">>, <<"0">>, <<"-","3">>, <<"0","0","7">> }
CoerceTexts == { <<>>, <<"1","2">>, <<"0">>, <<"-","3">>, <<"+","7">>, <<" ","5"," ">>, <<"1","_","0">>, <<"1",".","5">>, <<".","5">>, <<"5",".">>, <<"1","e","2">>, <<"-","2","E","-","1">>, <<"n","o","t","a","n","u","m","b","e","r">>, <<"1","x">>, <<"x","1">>, <<"t","r","u","e">>, <<"1"," ","2">>, <<"-","-","1">>, <<"1","_","_","0">>, <<"_","1">>, <<"1","_">>, <<"0","x","1","0">>, <<"1",",","5">>, <<".">>, <<"e","5">>, <<"1","e">>, <<"n","a","n">>, <<"-","I","n","f">>, <<"i","n","f","i","n","i","t","y">>, <<"i","n">> }
CoerceValues ==
    {[src |-> "boolean", text |-> t] : t \in CoerceBooleans}
        \cup {[src |-> "integer", text |-> t] : t \in CoerceIntegers}
        \cup {[src |-> "quoted", text |-> t] : t \in CoerceTexts}
        \cup {[src |-> "env", text |-> <<"$","e","n","v",".","A">>]}
CoerceDocs == [hint : CoerceHints, value : CoerceValues]
CoerceVar == <<"A">>
CoerceEnvs == {[x \in {CoerceVar} |-> t] : t \in CoerceTexts}
CoerceText(doc) ==
    <<"k"," ",":",":"," ">> \o doc.hint.name \o <<" ","="," ">>
        \o (IF doc.value.src = "quoted"
            THEN <<"\"">> \o doc.value.text \o <<"\"">> ELSE doc.value.text)

\* loads(text) of the document
CoerceCall(doc) ==
    /\ app = NoApp
    /\ app' = [fn |-> "coerce", arg |-> doc,
               res |-> LoadsTraced(Parse(CoerceText(doc)), environ)]
    /\ UNCHANGED <<environ, appOthers>>

InitK == environ \in CoerceEnvs /\ app = NoApp /\ AppIdleOthers
NextK == \E doc \in CoerceDocs : CoerceCall(doc)
SpecCoerce == InitK /\ [][NextK]_vars

\* numerals, read from the characters: digits in groups joined by single
\* underscores; an integer numeral is a signed group between blanks; a
\* float numeral has a fraction and an exponent as well, each optional
IsGroup(t) ==
    /\ t # <<>> /\ t[1] \in Digits /\ t[Len(t)] \in Digits
    /\ \A i \in DOMAIN t : t[i] \in Digits \cup {"_"}
    /\ \A i \in 1..(Len(t) - 1) : ~(t[i] = "_" /\ t[i + 1] = "_")
Unsigned(t) == IF t # <<>> /\ t[1] \in {"+", "-"} THEN Tail(t) ELSE t
IsIntNumeral(s) == IsGroup(Unsigned(Strip(s)))
IsMantissa(t) ==
    \/ IsGroup(t)
    \/ \E i \in DOMAIN t :
           /\ t[i] = "."
           /\ i = 1 \/ IsGroup(SubSeq(t, 1, i - 1))
           /\ i = Len(t) \/ IsGroup(SubSeq(t, i + 1, Len(t)))
           /\ Len(t) > 1
IsFloatNumeral(s) ==
    LET Body(t) ==
            \/ IsMantissa(t)
            \/ \E i \in DOMAIN t :
                   /\ t[i] \in {"e", "E"}
                   /\ IsMantissa(SubSeq(t, 1, i - 1))
                   /\ IsGroup(Unsigned(SubSeq(t, i + 1, Len(t))))
    IN  Body(Unsigned(Strip(s)))
\* the texts float() reads as infinity or as not-a-number
FloatNames == { <<"n","a","n">>, <<"i","n","f">>, <<"i","n","f","i","n","i","t","y">> }
IsFloatName(s) == Lower(Unsigned(Strip(s))) \in FloatNames
IsNumeric(s, ty) ==
    IF ty = "int" THEN IsIntNumeral(s) ELSE IsFloatNumeral(s) \/ IsFloatName(s)
\* the number a text of decimal digits, with or without `-`, stands for
RECURSIVE DigitsNumber(_)
DigitsNumber(t) ==
    IF t = <<>> THEN 0
    ELSE 10 * DigitsNumber(SubSeq(t, 1, Len(t) - 1))
         + (CHOOSE d \in 0..9 : DigitSeq[d + 1] = t[Len(t)])
IsDigits(t) == t # <<>> /\ \A i \in DOMAIN t : t[i] \in Digits
IntegerNumber(t) ==
    IF t[1] = "-" THEN -DigitsNumber(Tail(t)) ELSE DigitsNumber(t)

Coerced == app.fn = "coerce"
\* the string the assignment's value resolves to
CoerceString ==
    IF app.arg.value.src = "env" THEN environ[CoerceVar] ELSE app.arg.value.text
CoerceRaised ==
    /\ app.res.out.err.kind \in PPCErrorKinds /\ app.res.out.err.line = 1
    /\ app.res.out.v = VNull
\* the tree is {k: v} with v the number n in the hinted type
CoerceGave(n) ==
    /\ app.res.out.err = NoErr
    /\ app.res.out.v =
           VMap(<< <<KeyK, IF app.arg.hint.ty = "int" THEN VInt(n)
                           ELSE VFloat(n, 0)>> >>)

\* C18: with an int or float hint a boolean fails, and so does a string
\* that is no numeric representation: the load raises an error of the
\* library with the line and gives no tree; a string of decimal digits and an integer
\* literal give that integer, every other numeric string a number of the
\* hinted type.
C18_NumericCoercion ==
    Coerced =>
        /\ app.arg.value.src = "boolean" => CoerceRaised
        /\ app.arg.value.src = "integer"
               => CoerceGave(IntegerNumber(app.arg.value.text))
        /\ app.arg.value.src \in {"quoted", "env"} =>
               /\ ~IsNumeric(CoerceString, app.arg.hint.ty) => CoerceRaised
               /\ IsDigits(CoerceString) => CoerceGave(DigitsNumber(CoerceString))
               /\ IsNumeric(CoerceString, app.arg.hint.ty) =>
                      /\ app.res.out.err = NoErr
                      /\ Len(app.res.out.v.m) = 1
                      /\ app.res.out.v.m[1][1] = KeyK
                      /\ app.res.out.v.m[1][2].t = app.arg.hint.ty
\* a boolean with an int hint raised, in an environment whose variable would
\* have coerced
C18_Witness ==
    /\ Coerced /\ app.arg.hint.ty = "int" /\ app.arg.value.src = "boolean"
    /\ CoerceRaised /\ IsDigits(environ[CoerceVar])
\* a string of digits from the environment coerced, a non-numeric one raised
CoerceEnvDigits ==
    ~(Coerced /\ app.arg.value.src = "env" /\ IsDigits(CoerceString)
      /\ CoerceGave(DigitsNumber(CoerceString)))
CoerceEnvRaised ==
    ~(Coerced /\ app.arg.value.src = "env"
      /\ ~IsNumeric(CoerceString, app.arg.hint.ty) /\ CoerceRaised)

---------------------------------------------------------------------------
(* SpecHint: loads of  k :: <hint> = <value>  with hints of every kind     *)

\* the names of types, in lower case
RecognizedNames == { <<"s","t","r">>, <<"s","t","r","i","n","g">>, <<"i","n","t">>, <<"i","n","t","e","g","e","r">>, <<"f","l","o","a","t">>, <<"n","u","m","b","e","r">>, <<"b","o","o","l">>, <<"b","o","o","l","e","a","n">>, <<"l","i","s","t">>, <<"a","r","r","a","y">>, <<"a","n","y">> }
HintNames == { <<"f","o","o">>, <<"s","t","r","r">>, <<"i","n">>, <<"I","n","t">>, <<"A","N","Y">>, <<"t","e","x","t">>, <<"o","b","j","e","c","t">>, <<"d","i","c","t">>, <<"n","u","l","l">>, <<"n","o","n","e">>, <<"n","u","m">>, <<"d","o","u","b","l","e">>, <<"s","t","r">> }
\* a value and when it resolves to null: never, always, or when the
\* variable A is unset
HintValues ==
    { [text |-> <<"1">>, null |-> "never"],
      [text |-> <<"\"","x","\"">>, null |-> "never"],
      [text |-> <<"t","r","u","e">>, null |-> "never"],
      [text |-> <<"[","1","]">>, null |-> "never"],
      [text |-> <<"n","u","l","l">>, null |-> "always"],
      [text |-> <<"N","o","n","e">>, null |-> "always"],
      [text |-> <<"$","e","n","v",".","A">>, null |-> "unset"],
      [text |-> <<"$","e","n","v",".","A"," ","?","?"," ","5">>, null |-> "never"],
      [text |-> <<"$","e","n","v",".","A"," ","?","?"," ","n","i","l">>, null |-> "unset"],
      [text |-> <<"$","e","n","v",".","A"," ","?","?"," ","$","e","n","v",".","A">>, null |-> "unset"] }
HintDocs == [hint : HintNames, value : HintValues]
HintEnvs == {<<>>, [x \in {CoerceVar} |-> <<"7">>]}
HintText(doc) == <<"k"," ",":",":"," ">> \o doc.hint \o <<" ","="," ">> \o doc.value.text

\* loads(text) of the document
HintCall(doc) ==
    /\ app = NoApp
    /\ app' = [fn |-> "hint", arg |-> doc,
               res |-> LoadsTraced(Parse(HintText(doc)), environ)]
    /\ UNCHANGED <<environ, appOthers>>

InitH == environ \in HintEnvs /\ app = NoApp /\ AppIdleOthers
NextH == \E doc \in HintDocs : HintCall(doc)
SpecHint == InitH /\ [][NextH]_vars

Hinted == app.fn = "hint"
UnknownHint == Lower(app.arg.hint) \notin RecognizedNames
ResolvesToNull ==
    \/ app.arg.value.null = "always"
    \/ app.arg.value.null = "unset" /\ CoerceVar \notin DOMAIN environ
HintRaised ==
    /\ app.res.out.err.kind \in PPCErrorKinds /\ app.res.out.err.line = 1
    /\ app.res.out.v = VNull

\* C19: an assignment whose type hint is not a recognized name (compared
\* without regard to case) makes the load fail with an error of the
\* library, whatever the value resolves to, null included.
C19_UnknownHintFails ==
    Hinted /\ UnknownHint => HintRaised

\* an unknown hint fails when the value resolves to something; when it
\* resolves to null the hint is not looked at and k is null
UnknownHintUnlessNull ==
    Hinted /\ UnknownHint =>
        IF ResolvesToNull
        THEN /\ app.res.out.err = NoErr
             /\ app.res.out.v = VMap(<< <<KeyK, VNull>> >>)
        ELSE HintRaised /\ app.res.out.err.kind = "EvaluationError"

---------------------------------------------------------------------------
(* SpecChain: a provider made by create_secret_provider or by              *)
(* ChainedSecretProvider(), then set and delete on its in-memory members,  *)
(* add_provider and get.  chain.store holds the _secrets dict of every     *)
(* DictSecretProvider and FileSecretProvider object; a member of the list  *)
(* is [kind, id], id the object's place in the store (0 for the            *)
(* environment provider).                                                  *)

MaxProviders == 3

ChainKey == <<"K">>
ChainKeys == {ChainKey, <<"J">>}
ChainValues == {<<"a">>, <<"b">>, <<>>}
ChainTables == {<<>>, [x \in {ChainKey} |-> <<"a">>]}
ChainFiles ==
    {[exists |-> FALSE, table |-> <<>>],
     [exists |-> TRUE, table |-> [x \in ChainKeys |-> <<"f">>]]}
ChainEnvs == {<<>>, [x \in {SecretPrefix \o ChainKey} |-> <<>>],
              [x \in {SecretPrefix \o ChainKey} |-> <<"e">>]}
NoGet == [key |-> <<>>, v |-> None, done |-> FALSE]

\* the objects of a list of providers held by value
RECURSIVE StoreOf(_)
StoreOf(providers) ==
    IF providers = <<>> THEN <<>>
    ELSE IF providers[1].kind = "env" THEN StoreOf(Tail(providers))
    ELSE <<providers[1].table>> \o StoreOf(Tail(providers))
RECURSIVE MembersOf(_, _)
MembersOf(providers, n) ==
    IF providers = <<>> THEN <<>>
    ELSE IF providers[1].kind = "env"
    THEN <<[kind |-> "env", id |-> 0]>> \o MembersOf(Tail(providers), n)
    ELSE <<[kind |-> providers[1].kind, id |-> n + 1]>>
             \o MembersOf(Tail(providers), n + 1)
ProvidersOf(p) == IF p.kind = "chain" THEN p.members ELSE <<p>>

\* provider = create_secret_provider(env, file_path, secrets)
Created(useEnv, file_path, secrets) ==
    LET Made(r) ==
            [args |-> [env |-> useEnv, file_path |-> file_path, secrets |-> secrets],
             err |-> r.err, kind |-> IF r.err = NoErr THEN r.p.kind ELSE "",
             store |-> IF r.err = NoErr THEN StoreOf(ProvidersOf(r.p)) ELSE <<>>,
             providers |-> IF r.err = NoErr THEN MembersOf(ProvidersOf(r.p), 0)
                           ELSE <<>>,
             last |-> NoGet]
    IN  Made(CreateSecretProvider(useEnv, file_path, secrets))
\* provider = ChainedSecretProvider()
Chained ==
    [args |-> <<>>, err |-> NoErr, kind |-> "chain", store |-> <<>>,
     providers |-> <<>>, last |-> NoGet]

ChainInit ==
    /\ environ \in ChainEnvs
    /\ \/ chain = Chained
       \/ \E useEnv \in BOOLEAN, file_path \in {None} \cup {Some(f) : f \in ChainFiles},
             secrets \in {None} \cup {Some(t) : t \in ChainTables} :
             chain = Created(useEnv, file_path, secrets)

\* the provider object a member stands for, with its dict as it is now
MemberNow(member) ==
    IF member.kind = "env" THEN EnvProvider
    ELSE [kind |-> member.kind, table |-> chain.store[member.id], members |-> <<>>]
ProvidersNow == [i \in DOMAIN chain.providers |-> MemberNow(chain.providers[i])]
DictMembers == {i \in DOMAIN chain.providers : chain.providers[i].kind = "dict"}

\* DictSecretProvider.set(key, value) on a member
SecretSet(i, key, value) ==
    /\ chain # <<>> /\ i \in DictMembers
    /\ LET Put(id, table) ==
               chain' = [chain EXCEPT
                   !.store[id] = [x \in DOMAIN table \cup {key} |->
                                     IF x = key THEN value ELSE table[x]],
                   !.last = NoGet]
       IN  Put(chain.providers[i].id, chain.store[chain.providers[i].id])
    /\ UNCHANGED <<environ, chainOthers>>
\* DictSecretProvider.delete(key) on a member
SecretDelete(i, key) ==
    /\ chain # <<>> /\ i \in DictMembers
    /\ LET Pop(id, table) ==
               chain' = [chain EXCEPT
                   !.store[id] = [x \in DOMAIN table \ {key} |-> table[x]],
                   !.last = NoGet]
       IN  Pop(chain.providers[i].id, chain.store[chain.providers[i].id])
    /\ UNCHANGED <<environ, chainOthers>>
\* add_provider(DictSecretProvider()) and add_provider(EnvSecretProvider())
AddNewProvider(kind) ==
    /\ chain # <<>> /\ chain.kind = "chain" /\ Len(chain.providers) < MaxProviders
    /\ chain' = [chain EXCEPT
           !.store = IF kind = "dict" THEN Append(@, <<>>) ELSE @,
           !.providers =
               Append(@, [kind |-> kind,
                          id |-> IF kind = "dict" THEN Len(chain.store) + 1 ELSE 0]),
           !.last = NoGet]
    /\ UNCHANGED <<environ, chainOthers>>
\* add_provider(p) for a provider object p that is a member already
AddSameProvider(i) ==
    /\ chain # <<>> /\ chain.kind = "chain" /\ Len(chain.providers) < MaxProviders
    /\ i \in DOMAIN chain.providers
    /\ chain' = [chain EXCEPT !.providers = Append(@, chain.providers[i]),
                              !.last = NoGet]
    /\ UNCHANGED <<environ, chainOthers>>
\* provider.get(key)
SecretGet(key) ==
    /\ chain # <<>> /\ chain.err = NoErr /\ ~chain.last.done
    /\ chain' = [chain EXCEPT
           !.last = [key |-> key, done |-> TRUE,
                     v |-> ProviderGet(IF chain.kind = "chain"
                                       THEN ChainProvider(ProvidersNow)
                                       ELSE ProvidersNow[1], environ, key).v]]
    /\ UNCHANGED <<environ, chainOthers>>

InitS ==
    /\ ChainInit /\ MergeIdle /\ call = NoCall /\ EvalIdle /\ LexIdle /\ TripIdle
    /\ app = NoApp /\ past = <<>>
NextS ==
    \/ \E i \in 1..MaxProviders, key \in {ChainKey}, value \in ChainValues :
           SecretSet(i, key, value)
    \/ \E i \in 1..MaxProviders, key \in {ChainKey} : SecretDelete(i, key)
    \/ \E kind \in {"dict", "env"} : AddNewProvider(kind)
    \/ \E i \in 1..MaxProviders : AddSameProvider(i)
    \/ \E key \in ChainKeys : SecretGet(key)
SpecChain == InitS /\ [][NextS]_vars

\* what get(key) of the i-th member gives now
MemberValue(i, key) == MemberGet(ProvidersNow[i], environ, key).v
Matching(key) == {i \in DOMAIN chain.providers : MemberValue(i, key) # None}
FirstMatch(key) ==
    IF Matching(key) = {} THEN None
    ELSE MemberValue(CHOOSE i \in Matching(key) : \A j \in Matching(key) : i <= j, key)
\* the ingredients given to create_secret_provider, in the order map, file,
\* environment
Ingredients(args) ==
    (IF args.secrets # None /\ DOMAIN args.secrets[1] # {} THEN <<"dict">> ELSE <<>>)
        \o (IF args.file_path # None THEN <<"file">> ELSE <<>>)
        \o (IF args.env THEN <<"env">> ELSE <<>>)
MemberKinds == [i \in DOMAIN chain.providers |-> chain.providers[i].kind]
AsCreated == chain.args # <<>> /\ chain.err = NoErr

---------------------------------------------------------------------------
(* SpecAlias: three Config objects X, Y and Z merged into one another      *)

AliasNames == {"X", "Y", "Z"}
\* {}, {a: 1}, {a: {}}, {a: {a: 1}}, {a: {a: [2], b: 1}}
AliasTrees ==
    { <<>>,
      << <<KeyA, VInt(1)>> >>,
      << <<KeyA, VMap(<<>>)>> >>,
      << <<KeyA, VMap(<< <<KeyA, VInt(1)>> >>)>> >>,
      << <<KeyA, VMap(<< <<KeyA, VList(<<VInt(2)>>)>>, <<KeyB, VInt(1)>> >>)>> >> }

AliasInit ==
    \E tx \in AliasTrees, ty \in AliasTrees, tz \in AliasTrees :
        LET Made(ax, ay, az) ==
                /\ heap = az.h
                /\ configs = [c \in AliasNames |->
                                 IF c = "X" THEN ax.a ELSE IF c = "Y" THEN ay.a ELSE az.a]
            Third(ax, ay) == Made(ax, ay, AllocDict(ay.h, tz))
            Second(ax) == Third(ax, AllocDict(ax.h, ty))
        IN  /\ Second(AllocDict(<<>>, tx))
            /\ lastMerge = NoMerge
            /\ mergeOps = 0

InitA == AliasInit /\ ValueIdle /\ EvalIdle /\ LexIdle /\ TripIdle /\ RestIdle
NextA == \E self \in AliasNames, other \in AliasNames : Merge(self, other)
SpecAlias == InitA /\ [][NextA]_vars

\* the dict objects a dict object reaches, itself included
RECURSIVE ReachFrom(_, _, _)
ReachFrom(h, todo, seen) ==
    IF todo = {} THEN seen
    ELSE LET Visit(a) ==
                 ReachFrom(h,
                     (todo \cup {h[a][n][2].i : n \in {k \in DOMAIN h[a] :
                                                        h[a][k][2].t = "ref"}})
                         \ (seen \cup {a}),
                     seen \cup {a})
         IN  Visit(CHOOSE a \in todo : TRUE)
Reach(h, a) == ReachFrom(h, {a}, {})

\* C21: after a merge of an override tree into a base tree the base shares
\* no dict object with the override, and the merge leaves unchanged the tree
\* of every Config other than its base, the overrides of earlier merges
\* among them.
C21_MergeCopies ==
    MergeDone /\ lastMerge.err = "" =>
        /\ lastMerge.base # lastMerge.override
               => Reach(heap, MergeBaseAddr) \cap Reach(heap, MergeOverrideAddr) = {}
        /\ \A c \in DOMAIN configs :
               c # lastMerge.base
                   => HeapVal(heap, configs[c]) = HeapVal(lastMerge.pre, configs[c])

\* what holds of a merge: the tree of a Config that shares no dict object
\* with the base before the merge is left unchanged
MergeKeepsUnshared ==
    MergeDone /\ lastMerge.err = "" =>
        \A c \in DOMAIN configs :
            Reach(lastMerge.pre, configs[c]) \cap Reach(lastMerge.pre, MergeBaseAddr) = {}
                => HeapVal(heap, configs[c]) = HeapVal(lastMerge.pre, configs[c])

---------------------------------------------------------------------------
(* SpecSection: loads of documents made of section headers and             *)
(* assignments of numbers, the parts of the section paths (a, b) apart     *)
(* from the keys assigned (x, y)                                           *)

MaxSectionLines == 4

KeyX == <<"x">>
KeyY == <<"y">>
SectionLines ==
    {[kind |-> "section", parts |-> p] :
         p \in {<<>>, <<KeyA>>, <<KeyA, KeyB>>, <<KeyB>>}}
        \cup {[kind |-> "key", key |-> k[1], n |-> k[2]] :
                 k \in {<<KeyX, 1>>, <<KeyX, 2>>, <<KeyY, 3>>}}
RECURSIVE SectionDocs(_)
SectionDocs(n) ==
    IF n = 0 THEN {<<>>}
    ELSE SectionDocs(n - 1)
         \cup {Append(doc, ln) : doc \in SectionDocs(n - 1), ln \in SectionLines}
RECURSIVE Dotted(_)
Dotted(parts) ==
    IF parts = <<>> THEN <<>>
    ELSE IF Len(parts) = 1 THEN parts[1]
    ELSE parts[1] \o <<".">> \o Dotted(Tail(parts))
SectionLineText(ln) ==
    IF ln.kind = "section" THEN <<">", ">", " ">> \o Dotted(ln.parts)
    ELSE ln.key \o <<" ", "=", " ">> \o PyStrOfInt(ln.n)
RECURSIVE SectionDocText(_)
SectionDocText(doc) ==
    IF doc = <<>> THEN <<>>
    ELSE SectionLineText(doc[1]) \o <<"\n">> \o SectionDocText(Tail(doc))

\* loads(text) of the document
SectionCall(doc) ==
    /\ app = NoApp
    /\ app' = [fn |-> "sections", arg |-> doc,
               res |-> LoadsTraced(Parse(SectionDocText(doc)), environ)]
    /\ UNCHANGED <<environ, appOthers>>

InitN == environ = <<>> /\ app = NoApp /\ AppIdleOthers
NextN == \E doc \in SectionDocs(MaxSectionLines) : SectionCall(doc)
SpecSection == InitN /\ [][NextN]_vars

\* the path of the section a line is in: that of the last header before it
RECURSIVE PathAt(_, _)
PathAt(doc, n) ==
    IF n = 0 THEN <<>>
    ELSE IF doc[n].kind = "section" THEN doc[n].parts
    ELSE PathAt(doc, n - 1)
KeyLines(doc) == {n \in DOMAIN doc : doc[n].kind = "key"}
FullPath(doc, n) == PathAt(doc, n) \o <<doc[n].key>>
\* the key paths assigned, each with the number the last of its lines gives
LastLine(doc, n) ==
    \A m \in KeyLines(doc) : FullPath(doc, m) = FullPath(doc, n) => m <= n
ExpectedLeaves(doc) ==
    {<<FullPath(doc, n), VInt(doc[n].n)>> : n \in {k \in KeyLines(doc) : LastLine(doc, k)}}
\* the maps under the root: one for every non-empty start of a section path
ExpectedMaps(doc) ==
    UNION {{SubSeq(doc[n].parts, 1, k) : k \in 1..Len(doc[n].parts)} :
               n \in {j \in DOMAIN doc : doc[j].kind = "section"}}
\* the leaves and the maps of a tree, by their key paths
RECURSIVE LeavesOf(_, _)
LeavesOf(v, path) ==
    IF v.t # "map" THEN {<<path, v>>}
    ELSE UNION {LeavesOf(v.m[n][2], Append(path, v.m[n][1])) : n \in DOMAIN v.m}
RECURSIVE MapsOf(_, _)
MapsOf(v, path) ==
    IF v.t # "map" THEN {}
    ELSE {path} \cup UNION {MapsOf(v.m[n][2], Append(path, v.m[n][1])) : n \in DOMAIN v.m}
NoKeyTwice(v) ==
    \A path \in MapsOf(v, <<>>) :
        \A i, j \in DOMAIN GetPath(v, path, 1)[1].m :
            GetPath(v, path, 1)[1].m[i][1] = GetPath(v, path, 1)[1].m[j][1] => i = j

SectionsLoaded == app.fn = "sections"

\* C22: a section named p1.p2...pn writes its assignments into the map
\* reached from the root through p1, ..., pn, each created when missing; an
\* unnamed section writes at the root; keys of those maps that the section
\* does not assign are kept; of the assignments to one key of one map the
\* last applied wins.  So the tree has a map at every start of a section
\* path and nowhere else, and at every assigned key path the number of the
\* last assignment, and nothing else.
C22_SectionApplication ==
    SectionsLoaded =>
        /\ app.res.out.err = NoErr /\ ~app.res.out.hang
        /\ LeavesOf(app.res.out.v, <<>>) = ExpectedLeaves(app.arg)
        /\ MapsOf(app.res.out.v, <<>>) = ExpectedMaps(app.arg) \cup {<<>>}
        /\ NoKeyTwice(app.res.out.v)
\* `>> a.b` with two assignments of x after an assignment of another key
\* of the same map, which is kept
C22_Witness ==
    /\ SectionsLoaded /\ app.res.out.err = NoErr
    /\ \E k, n, m \in KeyLines(app.arg) :
           /\ k < n /\ n < m /\ FullPath(app.arg, n) = FullPath(app.arg, m)
           /\ Len(FullPath(app.arg, n)) = 3
           /\ app.arg[n].n # app.arg[m].n
           /\ PathAt(app.arg, k) = PathAt(app.arg, n)
           /\ app.arg[k].key # app.arg[n].key

---------------------------------------------------------------------------
(* SpecIndent: loads of a document and of the same document with the       *)
(* leading blanks of every line removed                                    *)

MaxIndentLines == 3

IndentBodies ==
    { <<"k"," ","=">>, <<"j"," ","="," ","[","1",",">>, <<"2","]">>, <<">",">"," ","s">>, <<">",">"," ","@","w","h","e","n"," ","$","e","n","v",".","A">>, <<"j"," ","="," ","$","e","n","v",".","A"," ","?","?"," ","2">> }
Indents == { <<>>, <<" ", "\t">> }
IndentLines == [indent : Indents, body : IndentBodies]
RECURSIVE IndentDocs(_)
IndentDocs(n) ==
    IF n = 0 THEN {<<>>}
    ELSE IndentDocs(n - 1)
         \cup {Append(doc, ln) : doc \in IndentDocs(n - 1), ln \in IndentLines}
RECURSIVE IndentedText(_)
IndentedText(doc) ==
    IF doc = <<>> THEN <<>>
    ELSE doc[1].indent \o doc[1].body \o <<"\n">> \o IndentedText(Tail(doc))
RECURSIVE FlushText(_)
FlushText(doc) ==
    IF doc = <<>> THEN <<>>
    ELSE doc[1].body \o <<"\n">> \o FlushText(Tail(doc))
IndentEnv == [x \in {CoerceVar} |-> <<"1">>]

\* loads(text) of the document as written, and of the document flush left
IndentCall(doc) ==
    /\ app = NoApp
    /\ app' = [fn |-> "indent", arg |-> doc,
               res |-> [indented |-> LoadsTraced(Parse(IndentedText(doc)), environ),
                        flush |-> LoadsTraced(Parse(FlushText(doc)), environ)]]
    /\ UNCHANGED <<environ, appOthers>>

InitI == environ = IndentEnv /\ app = NoApp /\ AppIdleOthers
NextI == \E doc \in IndentDocs(MaxIndentLines) : IndentCall(doc)
SpecIndent == InitI /\ [][NextI]_vars

IndentLoaded == app.fn = "indent"

\* C23: the leading blanks of a line outside a quoted string change neither
\* the AST nor the tree: a document and the same document flush left parse
\* to the same AST and load to the same tree, or fail alike.
C23_IndentCosmetic ==
    IndentLoaded =>
        /\ app.res.indented.ast = app.res.flush.ast
        /\ app.res.indented.out.v = app.res.flush.out.v
        /\ app.res.indented.out.err = app.res.flush.out.err
        /\ app.res.indented.out.hang = app.res.flush.out.hang

\* a section header indented after a conditional header and an indented
\* continuation of an array, loaded without error
C23_Witness ==
    /\ IndentLoaded /\ app.res.indented.out.err = NoErr
    /\ Len(app.arg) = 3
    /\ app.arg[1].body = <<">",">"," ","@","w","h","e","n"," ","$","e","n","v",".","A">> /\ app.arg[2].body = <<">",">"," ","s">>
    /\ app.arg[2].indent # <<>> /\ app.arg[3].indent # <<>>
    /\ Len(app.res.indented.ast.conditionals) = 1
    /\ Len(app.res.indented.ast.conditionals[1].sections) = 1
    /\ Len(app.res.indented.ast.conditionals[1].sections[1].assignments) = 1

---------------------------------------------------------------------------
(* SpecPath: one load of /a among the files /a, /d/c, /d/e and /e; /a and  *)
(* /d/c hold include directives, and every file assigns a key of its own   *)

FileDC == <<"d", "c">>
FileDE == <<"d", "e">>
FileE == <<"e">>
PathFiles == {FileA, FileDC, FileDE, FileE}
\* the key a file assigns: the characters of its components (a, dc, de, e)
Marker(file) == file
MarkerBody(file) ==
    [sections |-> <<SectionNode(<<>>, <<Assign(Marker(file), Len(file), 1)>>, 1)>>,
     conditionals |-> <<>>]
PathTargetsA ==
    {RelPath(<<"d", "c">>), AbsPath(<<"d", "c">>), RelPath(<<"e">>),
     RelPath(<<"d", "..", "d", "e">>), RelPath(<<"m">>)}
PathTargetsDC ==
    {RelPath(<<"e">>), RelPath(<<"..", "e">>), AbsPath(<<"e">>),
     RelPath(<<".", "e">>), RelPath(<<"x">>), RelPath(<<"..", "d", "x">>)}

PathInit ==
    /\ environ = <<>>
    /\ \E ia \in IncludeLists(PathTargetsA, MaxIncludes),
          ic \in IncludeLists(PathTargetsDC, 1) :
          fs = [f \in PathFiles |->
                   Document(MarkerBody(f),
                            IF f = FileA THEN ia ELSE IF f = FileDC THEN ic ELSE <<>>)]
    /\ stack = <<NewFrame(ParentDir(FileA), fs[FileA])>>
    /\ included = {}
    /\ outcome = NotDone

InitJ == PathInit /\ MergeIdle /\ call = NoCall /\ LexIdle /\ TripIdle /\ RestIdle
NextJ == Include \/ Phase \/ Return
SpecPath == InitJ /\ [][NextJ]_vars

\* the file a directive in a file names: the path as it is when absolute,
\* and otherwise from the directory of the file that holds the directive
TargetOf(file, path) ==
    IF path.abs THEN Resolve(path.parts)
    ELSE Resolve(ParentDir(file) \o path.parts)
\* the files a load of a file reads, in the order it comes to them, up to
\* the first directive whose target is missing
RECURSIVE WalkFrom(_, _, _, _)
WalkFrom(files, file, i, read) ==
    LET Entered(sub) ==
            IF sub.err # NoErr THEN sub ELSE WalkFrom(files, file, i + 1, sub.read)
        Directive(node, target) ==
            IF target \notin DOMAIN files
            THEN [read |-> read, err |-> Err("IncludeError", node.line)]
            ELSE Entered(WalkFrom(files, target, 1, Append(read, target)))
    IN  IF i > Len(files[file].includes) THEN [read |-> read, err |-> NoErr]
        ELSE Directive(files[file].includes[i],
                       TargetOf(file, files[file].includes[i].path))
Walk == WalkFrom(fs, FileA, 1, <<FileA>>)
NoRepeat(seq) == \A i, j \in DOMAIN seq : seq[i] = seq[j] => i = j
\* the file each evaluate call of the stack is evaluating
RECURSIVE FrameFile(_)
FrameFile(i) ==
    IF i = 1 THEN FileA
    ELSE TargetOf(FrameFile(i - 1),
                  stack[i - 1].ast.includes[stack[i - 1].idx].path)

\* C24: a relative include path is taken from the directory of the file
\* that holds the directive, at every depth, and an absolute path as it is;
\* a missing target fails with IncludeError at the directive's line.  So
\* every evaluate call works on the file so named with that file's
\* directory as base, and a load that reads no file twice returns the keys
\* of exactly the files so reached, or the error of the first missing one.
C24_IncludeResolution ==
    /\ \A i \in DOMAIN stack :
           /\ FrameFile(i) \in DOMAIN fs
           /\ stack[i].ast = fs[FrameFile(i)]
           /\ Resolve(stack[i].base) = ParentDir(FrameFile(i))
    /\ LoadDone /\ NoRepeat(Walk.read) =>
           /\ outcome.err = Walk.err
           /\ Walk.err = NoErr
                  => DictKeys(outcome.v.m) = {Marker(f) : f \in Range(Walk.read)}
\* /a included d/c, which included e: the load returned the keys of /a,
\* /d/c and /d/e and not the key of /e
C24_Witness ==
    /\ LoadOk
    /\ DictKeys(outcome.v.m) = {Marker(FileA), Marker(FileDC), Marker(FileDE)}
    /\ \E i \in DOMAIN fs[FileDC].includes :
           fs[FileDC].includes[i].path = RelPath(<<"e">>)
\* a missing target of a directive in /d/c ended the load
PathMissingNested ==
    ~(LoadDone /\ outcome.err.kind = "IncludeError" /\ NoRepeat(Walk.read)
      /\ Len(Walk.read) = 2 /\ Walk.read[2] = FileDC)

---------------------------------------------------------------------------
(* Conditional blocks, on the documents of SpecRoot                        *)

\* the key lines that directly follow a conditional header
KeysAfterWhen(lines) ==
    {n \in DOMAIN lines : n > 1 /\ lines[n].kind = "key" /\ lines[n - 1].kind = "when"}

\* C25: a key assignment that directly follows a `>> @when` header, with no
\* section header in between, is rejected with ParseError (the structural
\* error of the parser); it is never put among the unconditional sections.
C25_KeyAfterWhenRejected ==
    app.fn = "lines" /\ KeysAfterWhen(app.arg) # {}
        => app.res.err.kind = "ParseError"

\* what parse does with such a key: it is a bare assignment, held by the
\* first of the unconditional sections, and no conditional holds it
KeyAfterWhenUnconditional ==
    LinesParsed =>
        \A n \in KeysAfterWhen(app.arg) :
            /\ \E i \in DOMAIN app.res.ast.sections[1].assignments :
                   app.res.ast.sections[1].assignments[i].line = n
            /\ \A c \in DOMAIN app.res.ast.conditionals :
                   \A j \in DOMAIN app.res.ast.conditionals[c].sections :
                       \A i \in DOMAIN app.res.ast.conditionals[c].sections[j].assignments :
                           app.res.ast.conditionals[c].sections[j].assignments[i].line # n

---------------------------------------------------------------------------
(* Array literals: loads of `k = [ ... ]`                                   *)

MaxArrayItems == 3

VarB == <<"B">>
VarS == <<"S">>
\* the elements written in the literal: references with and without a `??`
\* default, literals, and an array holding a reference
ArrayPieces ==
    { [src |-> <<"$","e","n","v",".","A">>, ref |-> "env", name |-> CoerceVar, lit |-> VNull],
      [src |-> <<"$","e","n","v",".","B"," ","?","?"," ","1">>, ref |-> "env", name |-> VarB, lit |-> VNull],
      [src |-> <<"$","s","e","c","r","e","t",".","S"," ","?","?"," ","x">>, ref |-> "secret", name |-> VarS, lit |-> VNull],
      [src |-> <<"1">>, ref |-> "", name |-> <<>>, lit |-> VInt(1)],
      [src |-> <<"x">>, ref |-> "", name |-> <<>>, lit |-> VStr(<<"x">>)],
      [src |-> <<"[","$","e","n","v",".","A","]">>, ref |-> "nested", name |-> CoerceVar, lit |-> VNull] }
RECURSIVE ArrayLiterals(_)
ArrayLiterals(n) ==
    IF n = 0 THEN {<<>>}
    ELSE ArrayLiterals(n - 1)
         \cup {Append(a, p) : a \in ArrayLiterals(n - 1), p \in ArrayPieces}
RECURSIVE ArrayItemsText(_)
ArrayItemsText(a) ==
    IF a = <<>> THEN <<>>
    ELSE a[1].src \o (IF Len(a) > 1 THEN <<",", " ">> ELSE <<>>) \o ArrayItemsText(Tail(a))
ArrayText(a) == <<"k"," ","="," ","[">> \o ArrayItemsText(a) \o <<"]","\n">>
\* A and SECRET_S set or unset; B is never set
ArrayEnvs ==
    { [x \in names |-> IF x = CoerceVar THEN <<"7">> ELSE <<"9">>] :
          names \in SUBSET {CoerceVar, SecretPrefix \o VarS} }

\* loads(text) of the one-assignment document
ArrayCall(a) ==
    /\ app = NoApp
    /\ app' = [fn |-> "array", arg |-> a,
               res |-> LoadsTraced(Parse(ArrayText(a)), environ)]
    /\ UNCHANGED <<environ, appOthers>>

InitY == environ \in ArrayEnvs /\ app = NoApp /\ AppIdleOthers
NextY == \E a \in ArrayLiterals(MaxArrayItems) : ArrayCall(a)
SpecArray == InitY /\ [][NextY]_vars

ArrayLoaded == app.fn = "array"
\* the element the written piece stands for, every reference looked up
ResolvedPiece(p) ==
    CASE p.ref = "env" -> EnvValue(environ, p.name)
      [] p.ref = "secret" -> EnvValue(environ, SecretPrefix \o p.name)
      [] p.ref = "nested" -> VList(<<EnvValue(environ, p.name)>>)
      [] OTHER -> p.lit
\* the lookups made, in order: one for each reference among the elements
RECURSIVE PieceLookups(_)
PieceLookups(a) ==
    IF a = <<>> THEN <<>>
    ELSE (CASE a[1].ref = "env" -> << <<"env", a[1].name>> >>
            [] a[1].ref = "secret" -> << <<"env", SecretPrefix \o a[1].name>> >>
            [] OTHER -> <<>>) \o PieceLookups(Tail(a))
ArrayOfK == DictGet(app.res.out.v.m, <<"k">>)
ArrayResolvedAt(set) ==
    /\ app.res.out.err = NoErr /\ ~app.res.out.hang
    /\ ArrayOfK.t = "list" /\ Len(ArrayOfK.l) = Len(app.arg)
    /\ \A i \in set : ArrayOfK.l[i] = ResolvedPiece(app.arg[i])

\* C26: every element of an array literal is resolved, independently and in
\* order: a reference is looked up once and without its `??` default (null
\* when unset), every other element is unchanged, and the list keeps the
\* length and the order of the literal.
C26_ArrayResolution ==
    ArrayLoaded => ArrayResolvedAt(DOMAIN app.arg)

\* what holds: the elements written directly in the literal are resolved so,
\* with one lookup each, and an array written as an element keeps the
\* placeholder of its reference
TopLevelResolved ==
    ArrayLoaded =>
        /\ ArrayResolvedAt({i \in DOMAIN app.arg : app.arg[i].ref # "nested"})
        /\ app.res.out.log = PieceLookups(app.arg)
        /\ \A i \in DOMAIN app.arg :
               app.arg[i].ref = "nested"
                   => ArrayOfK.l[i] = VList(<<EnvItem(app.arg[i].name)>>)
\* a default written after an unset reference is reached and ignored
DefaultIgnored ==
    ~(/\ ArrayLoaded /\ Len(app.arg) = 3
      /\ app.arg[1].name = VarB /\ app.arg[2].ref = "secret" /\ app.arg[3].ref = ""
      /\ ArrayOfK.l[1] = VNull /\ ArrayOfK.l[2] = VNull)

---------------------------------------------------------------------------
(* validate_type on every kind of value and every rule                     *)

MaxValidateLine == 3

ValidateValues ==
    { VStr(<<"x">>), VStr(<<"1">>), VInt(1), VBool(TRUE), VNull,
      VList(<<>>), VList(<<VInt(1)>>) }
ValidateRules == {"any", "str", "int", "float", "bool", "list"}

\* validate_type(value, rule, line)
ValidateCall(value, rule, line) ==
    /\ app = NoApp
    /\ app' = [fn |-> "validate", arg |-> [value |-> value, rule |-> rule, line |-> line],
               res |-> ValidateType(value, rule, line)]
    /\ UNCHANGED <<environ, appOthers>>

InitT == environ = IndentEnv /\ app = NoApp /\ AppIdleOthers
NextT ==
    \E value \in ValidateValues, rule \in ValidateRules, line \in 1..MaxValidateLine :
        ValidateCall(value, rule, line)
SpecValidate == InitT /\ [][NextT]_vars

Validated == app.fn = "validate"

\* C27: for every kind of value and every rule, validate_type(value, rule,
\* line) returns a value or raises the library's TypeError carrying that
\* line, never an exception of the runtime.
C27_CoercionOwnError ==
    Validated =>
        \/ app.res.err = NoErr
        \/ app.res.err = Err("TypeError", app.arg.line)

\* what holds: the runtime's own TypeError, without a line, comes out for
\* None and for a list under the rules int and float, and only there
RawErrorCases ==
    Validated =>
        IF app.arg.value.t \in {"null", "list"} /\ app.arg.rule \in {"int", "float"}
        THEN app.res.err = Err("builtins.TypeError", 0)
        ELSE \/ app.res.err = NoErr
             \/ app.res.err = Err("TypeError", app.arg.line)

---------------------------------------------------------------------------
(* Files reached more than once, on the loads of SpecEval                  *)

\* a directive of a file the load can reach names no file
NamesMissing ==
    \E f \in IncludeClosure({FileA}, Cardinality(Files)) :
        \E i \in DOMAIN fs[f].includes :
            Resolve(JoinPath(ParentDir(f), fs[f].includes[i].path)) \notin Files

\* C28: the circular-include error is raised only for a real cycle: a load
\* whose include graph has no cycle and names no missing file does not end
\* in IncludeError, also when a file is reached more than once.
C28_CircularOnlyForCycles ==
    (LoadDone /\ ~HasCycle /\ ~NamesMissing) => outcome.err.kind # "IncludeError"

\* what the code does: a file once included stays in the set of included
\* files of the whole load, so a second directive that names it, in any
\* file, raises IncludeError: a load that succeeded entered every file of
\* its graph once
EnteredOnce ==
    LoadOk => /\ included = IncludeClosure({FileA}, Cardinality(Files)) \ {FileA}
              /\ \A f \in included \cup {FileA} :
                     \A i, j \in DOMAIN fs[f].includes :
                         fs[f].includes[i].path = fs[f].includes[j].path => i = j
\* a includes b and d/c, b includes d/c: no cycle, and the load fails at
\* the second directive of a
DiamondRaises ==
    ~(/\ LoadDone /\ ~HasCycle /\ ~NamesMissing
      /\ outcome.err = Err("IncludeError", 6)
      /\ IncludeEdges(FileA) = {FileB, FileC} /\ IncludeEdges(FileB) = {FileC}
      /\ IncludeEdges(FileC) = {})

---------------------------------------------------------------------------
(* Sections whose path meets a key that holds a number                     *)

MaxClashLines == 3

\* the keys a and x are assigned numbers and are parts of section paths
ClashLines ==
    {[kind |-> "section", parts |-> p] : p \in {<<KeyA>>, <<KeyA, KeyX>>, <<KeyX>>}}
        \cup {[kind |-> "key", key |-> k[1], n |-> k[2]] : k \in {<<KeyA, 1>>, <<KeyX, 2>>}}
RECURSIVE ClashDocs(_)
ClashDocs(n) ==
    IF n = 0 THEN {<<>>}
    ELSE ClashDocs(n - 1)
         \cup {Append(doc, ln) : doc \in ClashDocs(n - 1), ln \in ClashLines}

\* loads(text) of the document
ClashCall(doc) ==
    /\ app = NoApp
    /\ app' = [fn |-> "clash", arg |-> doc,
               res |-> LoadsTraced(Parse(SectionDocText(doc)), environ)]
    /\ UNCHANGED <<environ, appOthers>>

InitX == environ = <<>> /\ app = NoApp /\ AppIdleOthers
NextX == \E doc \in ClashDocs(MaxClashLines) : ClashCall(doc)
SpecClash == InitX /\ [][NextX]_vars

ClashLoaded == app.fn = "clash"

\* C29: loads fails only with errors of the library's family: for a text
\* that lexes and parses, evaluation returns a tree or raises one of them,
\* also when the path of a section passes through or ends at a key that
\* holds a number.
C29_OwnErrorsOnly ==
    ClashLoaded =>
        \/ app.res.out.err = NoErr
        \/ app.res.out.err.kind \in PPCErrorKinds

\* the lines of a document that assign into a section whose path, or a
\* prefix of it, was assigned a number by an earlier line
ClashingLines(doc) ==
    {n \in KeyLines(doc) :
        \E m \in KeyLines(doc) :
            /\ m < n
            /\ Len(FullPath(doc, m)) <= Len(PathAt(doc, n))
            /\ SubSeq(PathAt(doc, n), 1, Len(FullPath(doc, m))) = FullPath(doc, m)}
\* what the code does: every document parses, a document with such a line
\* ends in the runtime's TypeError, which has no line
RawTypeError ==
    ClashLoaded =>
        /\ ClashingLines(app.arg) # {} => app.res.out.err = Err("builtins.TypeError", 0)
        /\ app.res.out.err \in {NoErr, Err("builtins.TypeError", 0)}
\* root `a = 1`, then section `>> a` with an assignment
ClashAtRoot ==
    ~(/\ ClashLoaded /\ Len(app.arg) = 3
      /\ app.arg[1] = [kind |-> "key", key |-> KeyA, n |-> 1]
      /\ app.arg[2] = [kind |-> "section", parts |-> <<KeyA>>]
      /\ app.arg[3].kind = "key"
      /\ app.res.out.err = Err("builtins.TypeError", 0))

---------------------------------------------------------------------------
(* The extent of a conditional block, on the documents of SpecRoot         *)

\* the section lines that follow a conditional header with only section
\* and key lines in between, each with the line of that header
AfterWhen(lines) ==
    {<<m, n>> \in (DOMAIN lines) \X (DOMAIN lines) :
        /\ m < n /\ lines[m].kind = "when" /\ lines[n].kind = "section"
        /\ \A j \in (m + 1)..(n - 1) : lines[j].kind \in {"section", "key"}}
UnconditionalLines ==
    {app.res.ast.sections[i].line : i \in DOMAIN app.res.ast.sections}
ConditionalLines(m) ==
    UNION {{app.res.ast.conditionals[c].sections[i].line :
                i \in DOMAIN app.res.ast.conditionals[c].sections} :
           c \in {d \in DOMAIN app.res.ast.conditionals :
                      app.res.ast.conditionals[d].line = m}}

\* C30: a conditional block extends greedily: every section header after a
\* `>> @when` header, up to the next `>> @when` header, `@include`
\* directive or the end of input, is among the sections of that conditional
\* and not in ast.sections; a section header that follows a conditional
\* with only sections and assignments in between is never unconditional.
C30_GreedyConditional ==
    LinesParsed =>
        \A p \in AfterWhen(app.arg) :
            /\ p[2] \in ConditionalLines(p[1])
            /\ p[2] \notin UnconditionalLines

\* what parse does: the block extends so when a section header directly
\* follows the conditional header; a key directly after the conditional
\* header ends the block, and the section headers after it are
\* unconditional
GreedyAfterHeader ==
    LinesParsed =>
        \A p \in AfterWhen(app.arg) :
            IF app.arg[p[1] + 1].kind = "section"
            THEN p[2] \in ConditionalLines(p[1]) /\ p[2] \notin UnconditionalLines
            ELSE p[2] \in UnconditionalLines /\ ConditionalLines(p[1]) = {}

====
